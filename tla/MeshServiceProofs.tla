-------------------------- MODULE MeshServiceProofs --------------------------
(***************************************************************************)
(* The service loses no batch, runs none on bytes nobody vouches for and   *)
(* shows every job the data set before it, whatever is asked of it and     *)
(* whatever fails.                                                         *)
(*                                                                         *)
(* All three rest on where the two threads can be at the same time.  A     *)
(* rebuild is only ever asked for by the answer of a spoiled publication,  *)
(* and a spoiled worker serves nothing: so the queues the rebuild cancels  *)
(* are the only places a batch can still be in, and nobody runs while the  *)
(* bytes are replaced.                                                     *)
(***************************************************************************)
EXTENDS MeshService, TLAPS

WorkerPlaces == {"top", "gone", "syncs", "updates", "volumes", "holds", "meshed", "spoiled"}
MainPlaces == {"free", "enters", "cancels", "turn", "synced", "joins"}
Workers == [at : WorkerPlaces, class : Classes \cup {None}, jobs : SUBSET Nat,
            asleep : BOOLEAN]
Questions == Classes \cup {"update", "volume", "rebuild", "start", "diagnose", None}
MainThreads == [at : MainPlaces, what : Questions, asleep : BOOLEAN]

(* The requests that went into the service; the last may be on its way.    *)
Given == IF main.at = "enters" THEN 1..(tickets - 1) ELSE 1..tickets

ServiceTypeOK ==
  /\ tickets \in Nat
  /\ pending \in [Classes -> SUBSET Nat]
  /\ busy \in [Classes -> BOOLEAN]
  /\ results \in [Classes -> SUBSET [job : Nat, failed : BOOLEAN, valid : BOOLEAN]]
  /\ updates \subseteq Nat
  /\ volumes \subseteq Nat
  /\ sync \in {"none", "asked", "done", "failed"}
  /\ valid \in BOOLEAN
  /\ rebuilding \in BOOLEAN
  /\ worker \in Workers
  /\ main \in MainThreads
  /\ awaited \in [Classes -> SUBSET Nat]
  /\ wanted \in [{"update", "volume", "refused"} -> SUBSET Nat]
  /\ landed \subseteq Nat

Refilling == main.what \in {"rebuild", "start"}

(* A batch is held in the three places where it runs, each class in its    *)
(* own; a spoiled worker holds the publication that spoiled it.  Nobody    *)
(* runs in an invalid worker, nor in one whose pools are to be refilled.   *)
WorkerMode ==
  /\ worker.class # None <=> worker.at \in {"holds", "meshed", "spoiled"}
  /\ worker.class # None => worker.jobs # {}
  /\ worker.at = "meshed" => worker.class = "lod"
  /\ worker.at = "spoiled" => worker.class = "publish" /\ ~valid
  /\ ~valid => worker.at \notin {"holds", "meshed"}
  /\ Refilling => worker.class = None

(* What the main thread is at, and of what.                                *)
MainMode ==
  /\ main.at = "enters" => tickets \in Nat \ {0}
  /\ main.at = "cancels" => main.what = "rebuild" /\ ~valid
  /\ main.what \in {"rebuild", "start", "diagnose"}
       => main.at \in {"cancels", "turn", "synced"}
  /\ main.at \in {"turn", "synced"} => main.what \in {"rebuild", "start", "diagnose"}
  /\ main.at = "synced" => sync # "none"
  /\ Refilling /\ main.at # "cancels" => \A c \in Classes : pending[c] = {}

(* An answer that says the worker is spoiled is that of a publication, is  *)
(* there while nobody repaired the worker, and has none queued behind it.  *)
SpoiledAnswers ==
  /\ \A c \in Classes : \A r \in results[c] :
       ~r.valid => /\ c = "publish" /\ ~valid
                   /\ worker.class = None /\ ~Refilling
                   /\ pending["publish"] = {}
  /\ main.at = "cancels" => pending["bake"] = {} /\ pending["publish"] = {}

(* A class in work is busy, meshes apart.                                  *)
BusyInv ==
  \A c \in Classes \ {"mesh"} :
    /\ ~busy[c] => pending[c] = {} /\ Running(c) = {}
    /\ pending[c] = {} \/ Running(c) = {}

(* Every number in use was given out, and is in use once.                  *)
Numbered ==
  /\ \A c \in Classes : pending[c] \cup Answered(c) \subseteq Given
  /\ worker.class # None => worker.jobs \subseteq Given
  /\ \A d \in {"update", "volume"} : wanted[d] \subseteq 1..tickets

Placed ==
  main.at # "joins" =>
    \A c \in Classes : awaited[c] = pending[c] \cup Running(c) \cup Answered(c)

Apart ==
  \A c \in Classes :
    /\ pending[c] \cap Running(c) = {}
    /\ (pending[c] \cup Running(c)) \cap Answered(c) = {}

(* The coordinator has one transaction; a restart begins with no client.   *)
Clients ==
  /\ main.at = "joins" \/ main.what = "start" => \A c \in Classes : awaited[c] = {}
  /\ main.at # "joins" => awaited["bake"] = {} \/ awaited["publish"] = {}
  /\ main.at = "enters" /\ main.what \in {"bake", "publish"}
       => awaited["bake"] = {} /\ awaited["publish"] = {}

(* Where data that was asked for can be: in the pools, in the stream, with *)
(* the worker or with the thread that brings it.                           *)
Covered(d, kind, stream, at) ==
  \/ d \in landed
  \/ d \in stream
  \/ worker.at = at /\ d \in worker.jobs
  \/ main.at = "enters" /\ main.what = kind /\ d = tickets

Taken == wanted["volume"] \ wanted["refused"]

DataOnItsWay ==
  /\ main.at # "joins" /\ main.what # "start"
       => /\ valid => \A d \in wanted["update"] : Covered(d, "update", updates, "updates")
          /\ \A d \in Taken : Covered(d, "volume", volumes, "volumes")
  /\ main.at = "synced" /\ sync = "done" /\ Refilling => wanted["update"] \subseteq landed
  /\ JobsSeeTheirData

ServiceInv ==
  /\ ServiceTypeOK
  /\ WorkerMode
  /\ MainMode
  /\ SpoiledAnswers
  /\ BusyInv
  /\ Numbered
  /\ Placed
  /\ Apart
  /\ Clients
  /\ DataOnItsWay
-----------------------------------------------------------------------------
(* The queue looked at first is one with a batch in it.                    *)
LEMMA NextClassWaits ==
  ASSUME Waiting # {} PROVE NextClass \in Waiting
<1>1. \E c \in Waiting : \A d \in Waiting : Rank[c] <= Rank[d]
  BY DEF Waiting, Classes, Rank
<1> QED
  BY <1>1 DEF NextClass

(* The types hold of the empty service.                                    *)
LEMMA ServiceTypeInit == Init => ServiceTypeOK
<1> SUFFICES ASSUME Init PROVE ServiceTypeOK
  OBVIOUS
<1>1. wanted \in [{"update", "volume", "refused"} -> SUBSET Nat]
  BY DEF Init
<1>2. worker \in Workers
  BY DEF Init, AtTop, WorkerPlaces, Workers
<1>3. main \in MainThreads
  BY DEF Init, MainFree, MainPlaces, Questions, MainThreads
<1> QED
  BY <1>1, <1>2, <1>3 DEF Init, ServiceTypeOK

Answers == [job : Nat, failed : BOOLEAN, valid : BOOLEAN]

(* The answers of a batch name its jobs and nothing else.                  *)
LEMMA AnswersNameJobs ==
  ASSUME NEW jobs \in SUBSET Nat, NEW failed \in BOOLEAN, NEW ok \in BOOLEAN
  PROVE  /\ Answer(jobs, failed, ok) \subseteq Answers
         /\ {r.job : r \in Answer(jobs, failed, ok)} = jobs
         /\ \A r \in Answer(jobs, failed, ok) : r.valid = ok
<1> DEFINE A == Answer(jobs, failed, ok)
<1>1. \A r \in A : r \in Answers /\ r.job \in jobs /\ r.valid = ok
  BY DEF Answer, Answers
<1>2. ASSUME NEW j \in jobs PROVE j \in {r.job : r \in A}
  <2>1. [job |-> j, failed |-> failed, valid |-> ok] \in A
    BY DEF Answer
  <2> QED
    BY <2>1
<1> QED
  BY <1>1, <1>2

(* A thread that is woken is where it was, with what it had.               *)
LEMMA WakingMovesNobody ==
  ASSUME ServiceTypeOK
  PROVE  /\ NotifyWorker =>
              /\ worker' \in Workers
              /\ worker'.at = worker.at /\ worker'.class = worker.class
              /\ worker'.jobs = worker.jobs
         /\ NotifyMain =>
              /\ main' \in MainThreads
              /\ main'.at = main.at /\ main'.what = main.what
BY DEF ServiceTypeOK, NotifyWorker, NotifyMain, Workers, MainThreads



(* Where the main thread goes from a wait.                                 *)
LEMMA MainGoesOn ==
  ASSUME ServiceTypeOK
  PROVE  /\ MainAt("synced", main.what) \in MainThreads
         /\ MainAt("joins", None) \in MainThreads
         /\ MainFree \in MainThreads
BY DEF ServiceTypeOK, MainAt, MainFree, MainThreads, MainPlaces, Questions

(* Every step keeps the types.                                             *)
LEMMA ServiceTypeStep ==
  ASSUME ServiceTypeOK, [Next]_vars
  PROVE  ServiceTypeOK'
<1> USE ServiceAssumption DEF ServiceTypeOK, ServiceAssumption, queues, data, world, AtTop,
     Holding, AtWork, MainFree, MainAt, NotifyWorker, NotifyMain, WorkerPlaces, MainPlaces,
     Questions, Workers, MainThreads
<1>1. ASSUME NEW w \in Asks, Ask(w) PROVE ServiceTypeOK'
  BY <1>1 DEF Ask
<1>2. ASSUME NEW v \in 1..MaxTickets, Discard(v) PROVE ServiceTypeOK'
  BY <1>2 DEF Discard
<1>3. ASSUME NEW c \in Classes, Collect(c) PROVE ServiceTypeOK'
  BY <1>3 DEF Collect, Answered
<1>4. ASSUME NEW how \in {"done", "failed"}, RunSync(how) PROVE ServiceTypeOK'
  BY <1>4 DEF RunSync
<1>5. ASSUME NEW failed \in BOOLEAN, FinishBatch(failed) PROVE ServiceTypeOK'
  <2>1. Answer(worker.jobs, failed, TRUE) \subseteq Answers
    BY <1>5, AnswersNameJobs
  <2>2. results' \in [Classes -> SUBSET Answers]
    BY <1>5, <2>1 DEF FinishBatch, Post, Answers
  <2> QED
    BY <1>5, <2>2 DEF FinishBatch, Post, Freed, Answers
<1>6. ASSUME NEW failed \in BOOLEAN, FinishLod(failed) PROVE ServiceTypeOK'
  <2>1. Answer(worker.jobs, failed, TRUE) \subseteq Answers
    BY <1>6, AnswersNameJobs
  <2>2. results' \in [Classes -> SUBSET Answers]
    BY <1>6, <2>1 DEF FinishLod, Post, Answers
  <2> QED
    BY <1>6, <2>2 DEF FinishLod, Post, Freed, Answers
<1>7. CASE EnterBatch
  <2>1. CASE pending[main.what] = {} /\ ~busy[main.what]
    <3>1. pending' \in [Classes -> SUBSET Nat] /\ awaited' \in [Classes -> SUBSET Nat]
      BY <1>7, <2>1 DEF EnterBatch
    <3>2. main' \in MainThreads
      BY <1>7 DEF EnterBatch
    <3> QED
      BY <1>7, <2>1, <3>1, <3>2, WakingMovesNobody DEF EnterBatch
  <2>2. CASE ~(pending[main.what] = {} /\ ~busy[main.what])
    BY <1>7, <2>2 DEF EnterBatch
  <2> QED
    BY <2>1, <2>2
<1>8. CASE EnterUpdate
  BY <1>8 DEF EnterUpdate
<1>9. CASE EnterVolume
  BY <1>9 DEF EnterVolume
<1>10. CASE CancelForRebuild
  <2>1. ASSUME NEW c \in Classes
        PROVE  Answer(pending[c], TRUE, TRUE) \subseteq Answers
    BY AnswersNameJobs
  <2>2. results' \in [Classes -> SUBSET Answers]
    BY <1>10, <2>1 DEF CancelForRebuild, FailedResults, Answers
  <2> QED
    BY <1>10, <2>2 DEF CancelForRebuild, Answers
<1>11. CASE Diagnose
  BY <1>11 DEF Diagnose
<1>12. CASE WaitTurn
  <2>1. CASE MyTurn
    <3>1. main' \in MainThreads
      BY <1>12, <2>1, MainGoesOn DEF WaitTurn
    <3> QED
      BY <1>12, <2>1, <3>1, WakingMovesNobody DEF WaitTurn
  <2>2. CASE ~MyTurn
    BY <1>12, <2>2 DEF WaitTurn
  <2> QED
    BY <2>1, <2>2
<1>13. CASE SyncReturns
  <2>1. CASE sync = "asked"
    BY <1>13, <2>1 DEF SyncReturns
  <2>2. CASE sync # "asked"
    <3>1. volumes' \subseteq Nat /\ wanted' \in [{"update", "volume", "refused"} -> SUBSET Nat]
      <4>1. CASE main.what = "start" /\ sync = "done"
        BY <1>13, <2>2, <4>1 DEF SyncReturns
      <4>2. CASE ~(main.what = "start" /\ sync = "done")
        BY <1>13, <2>2, <4>2 DEF SyncReturns
      <4> QED
        BY <4>1, <4>2
    <3>2. main' \in MainThreads
      BY <1>13, <2>2, MainGoesOn DEF SyncReturns
    <3>3. valid' \in BOOLEAN
      BY <1>13, <2>2 DEF SyncReturns
    <3> QED
      BY <1>13, <2>2, <3>1, <3>2, <3>3, WakingMovesNobody DEF SyncReturns
  <2> QED
    BY <2>1, <2>2
<1>14. CASE Stop
  BY <1>14 DEF Stop
<1>15. CASE Restart
  BY <1>15 DEF Restart
<1>16. CASE WorkerSleeps
  BY <1>16 DEF WorkerSleeps
<1>17. CASE WorkerExits
  BY <1>17 DEF WorkerExits
<1>18. CASE TakeSync
  BY <1>18 DEF TakeSync
<1>19. CASE TakeUpdates
  BY <1>19 DEF TakeUpdates, MayServe
<1>20. CASE TakeVolumes
  BY <1>20 DEF TakeVolumes, MayServe
<1>21. CASE TakeBatch
  <2>1. NextClass \in Classes
    BY <1>21, NextClassWaits DEF TakeBatch, Waiting
  <2> QED
    BY <1>21, <2>1 DEF TakeBatch
<1>22. CASE ApplyData
  BY <1>22 DEF ApplyData, NotifyAfterData
<1>23. CASE FallThroughMesh
  BY <1>23 DEF FallThroughMesh, Freed
<1>24. CASE RestoreFails
  BY <1>24 DEF RestoreFails
<1>25. CASE PostSpoiled
  <2>1. Answer(worker.jobs, TRUE, FALSE) \subseteq Answers
    BY <1>25, AnswersNameJobs
  <2>2. results' \in [Classes -> SUBSET Answers]
    BY <1>25, <2>1 DEF PostSpoiled, Post, Answers
  <2> QED
    BY <1>25, <2>2 DEF PostSpoiled, Post, Freed, Answers
<1>26. CASE UNCHANGED vars
  BY <1>26 DEF vars
<1> QED
  BY <1>1, <1>2, <1>3, <1>4, <1>5, <1>6, <1>7, <1>8, <1>9, <1>10, <1>11, <1>12, <1>13,
    <1>14, <1>15, <1>16, <1>17, <1>18, <1>19, <1>20, <1>21, <1>22, <1>23, <1>24, <1>25,
    <1>26 DEF Next, MainStep, WorkerStep

(* What each of the three steps that touch the answers leaves there.       *)
LEMMA PostAnswers ==
  ASSUME ServiceTypeOK, NEW c \in Classes, NEW failed \in BOOLEAN, NEW ok \in BOOLEAN,
         Post(c, failed, ok)
  PROVE  /\ Answered(c)' = Answered(c) \cup worker.jobs
         /\ \A d \in Classes \ {c} : Answered(d)' = Answered(d)
<1>1. {r.job : r \in Answer(worker.jobs, failed, ok)} = worker.jobs
  BY AnswersNameJobs DEF ServiceTypeOK, Workers
<1>2. /\ results'[c] = results[c] \cup Answer(worker.jobs, failed, ok)
      /\ \A d \in Classes \ {c} : results'[d] = results[d]
  BY DEF Post, ServiceTypeOK
<1> QED
  BY <1>1, <1>2 DEF Answered

(* A rebuild answers what it cancels, bakes and publications apart.        *)
LEMMA CancelAnswers ==
  ASSUME ServiceTypeOK, results' = FailedResults, NEW c \in Classes
  PROVE  Answered(c)' = IF c \in {"bake", "publish"} THEN Answered(c)
                        ELSE Answered(c) \cup pending[c]
<1>1. {r.job : r \in Answer(pending[c], TRUE, TRUE)} = pending[c]
  BY AnswersNameJobs DEF ServiceTypeOK
<1>2. results'[c] = IF c \in {"bake", "publish"} THEN results[c]
                    ELSE results[c] \cup Answer(pending[c], TRUE, TRUE)
  BY DEF FailedResults
<1> QED
  BY <1>1, <1>2 DEF Answered

(* Collecting takes all answers of one class and no other.                 *)
LEMMA CollectAnswers ==
  ASSUME ServiceTypeOK, NEW c \in Classes, Collect(c)
  PROVE  /\ Answered(c)' = {}
         /\ \A d \in Classes \ {c} : Answered(d)' = Answered(d)
BY DEF Collect, Answered, ServiceTypeOK

(* Where a batch ends: its jobs become answers, and nothing runs.          *)
LEMMA BatchEnds ==
  ASSUME ServiceTypeOK, WorkerMode, NEW failed \in BOOLEAN,
         FinishBatch(failed) \/ FinishLod(failed) \/ PostSpoiled
  PROVE  \E c \in Classes :
           /\ worker.class = c /\ worker.jobs # {}
           /\ Answered(c)' = Answered(c) \cup worker.jobs
           /\ \A d \in Classes \ {c} : Answered(d)' = Answered(d)
           /\ \A d \in Classes : /\ Running(d) = IF d = c THEN worker.jobs ELSE {}
                                 /\ Running(d)' = {}
           /\ pending' = pending /\ awaited' = awaited
           /\ tickets' = tickets /\ wanted' = wanted
           /\ worker'.class = None
           /\ main'.at = main.at /\ main'.what = main.what
<1>1. /\ pending' = pending /\ awaited' = awaited
      /\ tickets' = tickets /\ wanted' = wanted
  BY DEF FinishBatch, FinishLod, PostSpoiled, world
<1>2. worker' = AtTop /\ NotifyMain
  BY DEF FinishBatch, FinishLod, PostSpoiled, Post
<1>3. worker'.class = None /\ main'.at = main.at /\ main'.what = main.what
  BY <1>2, WakingMovesNobody DEF AtTop
<1>4. /\ worker.class \in {"extract", "mesh", "bake", "publish", "lod"}
      /\ \E f \in BOOLEAN, ok \in BOOLEAN : \A x : x = worker.class => Post(x, f, ok)
  <2>1. CASE FinishBatch(failed)
    BY <2>1 DEF FinishBatch
  <2>2. CASE FinishLod(failed)
    BY <2>2 DEF FinishLod, WorkerMode
  <2>3. CASE PostSpoiled
    BY <2>3 DEF PostSpoiled, WorkerMode
  <2> QED
    BY <2>1, <2>2, <2>3
<1>5. PICK x \in Classes : x = worker.class
  BY <1>4 DEF Classes
<1>6. PICK f \in BOOLEAN, ok \in BOOLEAN : Post(x, f, ok)
  BY <1>4, <1>5
<1>7. /\ Answered(x)' = Answered(x) \cup worker.jobs
      /\ \A d \in Classes \ {x} : Answered(d)' = Answered(d)
  BY <1>6, PostAnswers
<1>8. worker.jobs # {}
  BY <1>5, ServiceAssumption DEF WorkerMode, ServiceAssumption
<1>9. \A d \in Classes : /\ Running(d) = IF d = x THEN worker.jobs ELSE {}
                         /\ Running(d)' = {}
  BY <1>3, <1>5, ServiceAssumption DEF Running, ServiceAssumption
<1> QED
  BY <1>1, <1>3, <1>5, <1>7, <1>8, <1>9

(* Every step keeps the worker's books: only a valid worker takes work.    *)
LEMMA WorkerModeStep ==
  ASSUME ServiceInv, [Next]_vars
  PROVE  WorkerMode'
<1> USE ServiceAssumption DEF ServiceInv, ServiceTypeOK, queues, data, world, AtTop,
     Holding, AtWork, MainFree, MainAt, NotifyWorker, NotifyMain, Workers, MainThreads,
     Refilling, WorkerMode, MainMode, SpoiledAnswers, Classes, ServiceAssumption
<1>1. ASSUME NEW w \in Asks, Ask(w) PROVE WorkerMode'
  BY <1>1 DEF Ask
<1>2. ASSUME NEW v \in 1..MaxTickets, Discard(v) PROVE WorkerMode'
  BY <1>2 DEF Discard
<1>3. ASSUME NEW c \in Classes, Collect(c) PROVE WorkerMode'
  BY <1>3 DEF Collect, Answered
<1>4. ASSUME NEW how \in {"done", "failed"}, RunSync(how) PROVE WorkerMode'
  BY <1>4 DEF RunSync
<1>5. ASSUME NEW failed \in BOOLEAN, FinishBatch(failed) PROVE WorkerMode'
  BY <1>5 DEF FinishBatch, Post, Freed
<1>6. ASSUME NEW failed \in BOOLEAN, FinishLod(failed) PROVE WorkerMode'
  BY <1>6 DEF FinishLod, Post, Freed
<1>7. CASE EnterBatch
  BY <1>7 DEF EnterBatch
<1>8. CASE EnterUpdate
  BY <1>8 DEF EnterUpdate
<1>9. CASE EnterVolume
  BY <1>9 DEF EnterVolume
<1>10. CASE CancelForRebuild
  BY <1>10 DEF CancelForRebuild, FailedResults
<1>11. CASE Diagnose
  BY <1>11 DEF Diagnose
<1>12. CASE WaitTurn
  BY <1>12 DEF WaitTurn, MyTurn
<1>13. CASE SyncReturns
  <2>1. CASE sync = "asked"
    BY <1>13, <2>1 DEF SyncReturns
  <2>2. CASE sync # "asked"
    <3>1. ~valid' => worker.at \notin {"holds", "meshed"}
      BY <1>13, <2>2 DEF SyncReturns
    <3>2. ~valid => ~valid' \/ Refilling
      BY <1>13, <2>2 DEF SyncReturns
    <3>3. /\ worker'.at = worker.at /\ worker'.class = worker.class
          /\ worker'.jobs = worker.jobs
      BY <1>13, <2>2, WakingMovesNobody DEF SyncReturns
    <3>4. ~Refilling'
      BY <1>13, <2>2 DEF SyncReturns
    <3> QED
      BY <3>1, <3>2, <3>3, <3>4
  <2> QED
    BY <2>1, <2>2
<1>14. CASE Stop
  BY <1>14 DEF Stop
<1>15. CASE Restart
  BY <1>15 DEF Restart
<1>16. CASE WorkerSleeps
  BY <1>16 DEF WorkerSleeps, WorkerAwake
<1>17. CASE WorkerExits
  BY <1>17 DEF WorkerExits, WorkerAwake
<1>18. CASE TakeSync
  BY <1>18 DEF TakeSync, WorkerAwake
<1>19. CASE TakeUpdates
  BY <1>19 DEF TakeUpdates, MayServe, WorkerAwake
<1>20. CASE TakeVolumes
  BY <1>20 DEF TakeVolumes, MayServe, WorkerAwake
<1>21. CASE TakeBatch
  <2>1. NextClass \in Classes /\ pending[NextClass] # {}
    BY <1>21, NextClassWaits DEF TakeBatch, Waiting
  <2>2. ~Refilling
    BY <1>21, <2>1 DEF TakeBatch, MayServe
  <2> QED
    BY <1>21, <2>1, <2>2 DEF TakeBatch, MayServe
<1>22. CASE ApplyData
  BY <1>22 DEF ApplyData, NotifyAfterData
<1>23. CASE FallThroughMesh
  BY <1>23 DEF FallThroughMesh, Freed
<1>24. CASE RestoreFails
  BY <1>24 DEF RestoreFails
<1>25. CASE PostSpoiled
  BY <1>25 DEF PostSpoiled, Post, Freed
<1>26. CASE UNCHANGED vars
  BY <1>26 DEF vars
<1> QED
  BY <1>1, <1>2, <1>3, <1>4, <1>5, <1>6, <1>7, <1>8, <1>9, <1>10, <1>11, <1>12, <1>13,
    <1>14, <1>15, <1>16, <1>17, <1>18, <1>19, <1>20, <1>21, <1>22, <1>23, <1>24, <1>25,
    <1>26 DEF Next, MainStep, WorkerStep

(* Every step keeps the main thread's: a rebuild starts with empty queues. *)
LEMMA MainModeStep ==
  ASSUME ServiceInv, [Next]_vars
  PROVE  MainMode'
<1> USE ServiceAssumption DEF ServiceInv, ServiceTypeOK, queues, data, world, AtTop,
     Holding, AtWork, MainFree, MainAt, NotifyWorker, NotifyMain, Workers, MainThreads,
     Refilling, WorkerMode, MainMode, SpoiledAnswers, Classes, ServiceAssumption
<1>1. ASSUME NEW w \in Asks, Ask(w) PROVE MainMode'
  BY <1>1 DEF Ask
<1>2. ASSUME NEW v \in 1..MaxTickets, Discard(v) PROVE MainMode'
  BY <1>2 DEF Discard
<1>3. ASSUME NEW c \in Classes, Collect(c) PROVE MainMode'
  BY <1>3 DEF Collect, Answered
<1>4. ASSUME NEW how \in {"done", "failed"}, RunSync(how) PROVE MainMode'
  BY <1>4 DEF RunSync
<1>5. ASSUME NEW failed \in BOOLEAN, FinishBatch(failed) PROVE MainMode'
  BY <1>5 DEF FinishBatch, Post, Freed
<1>6. ASSUME NEW failed \in BOOLEAN, FinishLod(failed) PROVE MainMode'
  BY <1>6 DEF FinishLod, Post, Freed
<1>7. CASE EnterBatch
  BY <1>7 DEF EnterBatch
<1>8. CASE EnterUpdate
  BY <1>8 DEF EnterUpdate
<1>9. CASE EnterVolume
  BY <1>9 DEF EnterVolume
<1>10. CASE CancelForRebuild
  BY <1>10 DEF CancelForRebuild, FailedResults
<1>11. CASE Diagnose
  BY <1>11 DEF Diagnose
<1>12. CASE WaitTurn
  BY <1>12 DEF WaitTurn, MyTurn
<1>13. CASE SyncReturns
  BY <1>13 DEF SyncReturns
<1>14. CASE Stop
  BY <1>14 DEF Stop
<1>15. CASE Restart
  BY <1>15 DEF Restart
<1>16. CASE WorkerSleeps
  BY <1>16 DEF WorkerSleeps, WorkerAwake
<1>17. CASE WorkerExits
  BY <1>17 DEF WorkerExits, WorkerAwake
<1>18. CASE TakeSync
  BY <1>18 DEF TakeSync, WorkerAwake
<1>19. CASE TakeUpdates
  BY <1>19 DEF TakeUpdates, MayServe, WorkerAwake
<1>20. CASE TakeVolumes
  BY <1>20 DEF TakeVolumes, MayServe, WorkerAwake
<1>21. CASE TakeBatch
  BY <1>21 DEF TakeBatch, MayServe, WorkerAwake
<1>22. CASE ApplyData
  BY <1>22 DEF ApplyData, NotifyAfterData
<1>23. CASE FallThroughMesh
  BY <1>23 DEF FallThroughMesh, Freed
<1>24. CASE RestoreFails
  BY <1>24 DEF RestoreFails
<1>25. CASE PostSpoiled
  BY <1>25 DEF PostSpoiled, Post, Freed
<1>26. CASE UNCHANGED vars
  BY <1>26 DEF vars
<1> QED
  BY <1>1, <1>2, <1>3, <1>4, <1>5, <1>6, <1>7, <1>8, <1>9, <1>10, <1>11, <1>12, <1>13,
    <1>14, <1>15, <1>16, <1>17, <1>18, <1>19, <1>20, <1>21, <1>22, <1>23, <1>24, <1>25,
    <1>26 DEF Next, MainStep, WorkerStep

(* The answer of a spoiled publication stays the only one of its kind.     *)
LEMMA SpoiledAnswersStep ==
  ASSUME ServiceInv, [Next]_vars
  PROVE  SpoiledAnswers'
<1> USE ServiceAssumption DEF ServiceInv, ServiceTypeOK, queues, data, world, AtTop,
     Holding, AtWork, MainFree, MainAt, NotifyWorker, NotifyMain, Workers, MainThreads,
     Refilling, WorkerMode, MainMode, SpoiledAnswers
<1>1. ASSUME NEW w \in Asks, Ask(w) PROVE SpoiledAnswers'
  BY <1>1 DEF Ask
<1>2. ASSUME NEW v \in 1..MaxTickets, Discard(v) PROVE SpoiledAnswers'
  BY <1>2 DEF Discard
<1>3. ASSUME NEW c \in Classes, Collect(c) PROVE SpoiledAnswers'
  <2>1. \A d \in Classes : results'[d] \subseteq results[d]
    BY <1>3 DEF Collect
  <2>2. CASE \E r \in results[c] : ~r.valid
    <3>1. PICK r \in results[c] : ~r.valid
      BY <2>2
    <3>2. c = "publish" /\ ~valid /\ worker.class = None /\ pending["publish"] = {}
      BY <3>1
    <3>3. r.job \in Answered("publish")
      BY <3>1, <3>2 DEF Answered
    <3>4. pending["bake"] = {}
      BY <1>3, <3>3, Z3 DEF Collect, Placed, Clients, Classes
    <3>5. \A d \in Classes : \A q \in results'[d] : q.valid
      BY <1>3, <2>1, <3>2 DEF Collect
    <3> QED
      BY <1>3, <3>2, <3>4, <3>5 DEF Collect
  <2>3. CASE ~ \E r \in results[c] : ~r.valid
    BY <1>3, <2>1, <2>3 DEF Collect
  <2> QED
    BY <2>2, <2>3
<1>4. ASSUME NEW how \in {"done", "failed"}, RunSync(how) PROVE SpoiledAnswers'
  BY <1>4 DEF RunSync
<1>5. ASSUME NEW failed \in BOOLEAN, FinishBatch(failed) PROVE SpoiledAnswers'
  <2>1. \A r \in Answer(worker.jobs, failed, TRUE) : r.valid
    BY <1>5, AnswersNameJobs DEF FinishBatch
  <2>2. \A d \in Classes : \A r \in results'[d] : r \in results[d] \/ r.valid
    BY <1>5, <2>1 DEF FinishBatch, Post
  <2> QED
    BY <1>5, <2>2 DEF FinishBatch, Post
<1>6. ASSUME NEW failed \in BOOLEAN, FinishLod(failed) PROVE SpoiledAnswers'
  <2>1. \A r \in Answer(worker.jobs, failed, TRUE) : r.valid
    BY <1>6, AnswersNameJobs DEF FinishLod
  <2>2. \A d \in Classes : \A r \in results'[d] : r \in results[d] \/ r.valid
    BY <1>6, <2>1 DEF FinishLod, Post
  <2> QED
    BY <1>6, <2>2 DEF FinishLod, Post
<1>7. CASE EnterBatch
  <2>1. main.what = "publish" => results["publish"] = {}
    <3>1. main.what = "publish" => Answered("publish") = {}
      BY <1>7 DEF EnterBatch, Placed, Clients, Classes
    <3> QED
      BY <3>1 DEF Answered
  <2> QED
    BY <1>7, <2>1 DEF EnterBatch
<1>8. CASE EnterUpdate
  BY <1>8 DEF EnterUpdate
<1>9. CASE EnterVolume
  BY <1>9 DEF EnterVolume
<1>10. CASE CancelForRebuild
  <2>1. \A d \in Classes : \A r \in Answer(pending[d], TRUE, TRUE) : r.valid
    BY AnswersNameJobs
  <2>2. \A d \in Classes : \A r \in results'[d] : r \in results[d] \/ r.valid
    BY <1>10, <2>1 DEF CancelForRebuild, FailedResults
  <2>3. \A d \in Classes : \A r \in results'[d] : r.valid
    BY <1>10, <2>2 DEF CancelForRebuild
  <2> QED
    BY <1>10, <2>3 DEF CancelForRebuild
<1>11. CASE Diagnose
  BY <1>11 DEF Diagnose
<1>12. CASE WaitTurn
  BY <1>12 DEF WaitTurn, MyTurn
<1>13. CASE SyncReturns
  <2>1. ASSUME NEW d \in Classes, NEW r \in results[d], ~r.valid
        PROVE  ~valid'
    <3>1. ~valid /\ ~Refilling
      BY <2>1
    <3> QED
      BY <1>13, <3>1 DEF SyncReturns
  <2>2. /\ worker'.class = worker.class /\ results' = results /\ pending' = pending
        /\ ~Refilling => ~Refilling'
        /\ main'.at # "cancels"
    BY <1>13, WakingMovesNobody DEF SyncReturns
  <2> QED
    BY <2>1, <2>2
<1>14. CASE Stop
  BY <1>14 DEF Stop
<1>15. CASE Restart
  BY <1>15 DEF Restart
<1>16. CASE WorkerSleeps
  BY <1>16 DEF WorkerSleeps, WorkerAwake
<1>17. CASE WorkerExits
  BY <1>17 DEF WorkerExits, WorkerAwake
<1>18. CASE TakeSync
  BY <1>18 DEF TakeSync, WorkerAwake
<1>19. CASE TakeUpdates
  BY <1>19 DEF TakeUpdates, MayServe, WorkerAwake
<1>20. CASE TakeVolumes
  BY <1>20 DEF TakeVolumes, MayServe, WorkerAwake
<1>21. CASE TakeBatch
  BY <1>21 DEF TakeBatch, MayServe, WorkerAwake
<1>22. CASE ApplyData
  BY <1>22 DEF ApplyData, NotifyAfterData
<1>23. CASE FallThroughMesh
  BY <1>23 DEF FallThroughMesh, Freed
<1>24. CASE RestoreFails
  BY <1>24 DEF RestoreFails
<1>25. CASE PostSpoiled
  <2>1. pending["publish"] = {}
    BY <1>25 DEF PostSpoiled, BusyInv, Running, Classes
  <2>2. \A d \in Classes \ {"publish"} : results'[d] = results[d]
    BY <1>25 DEF PostSpoiled, Post, Classes
  <2> QED
    BY <1>25, <2>1, <2>2 DEF PostSpoiled, Post
<1>26. CASE UNCHANGED vars
  BY <1>26 DEF vars
<1> QED
  BY <1>1, <1>2, <1>3, <1>4, <1>5, <1>6, <1>7, <1>8, <1>9, <1>10, <1>11, <1>12, <1>13,
    <1>14, <1>15, <1>16, <1>17, <1>18, <1>19, <1>20, <1>21, <1>22, <1>23, <1>24, <1>25,
    <1>26 DEF Next, MainStep, WorkerStep

(* A class other than the meshes is busy as long as a batch of it is about.*)
LEMMA BusyStep ==
  ASSUME ServiceInv, [Next]_vars
  PROVE  BusyInv'
<1> USE ServiceAssumption DEF ServiceInv, ServiceTypeOK, queues, data, world, AtTop,
     Holding, AtWork, MainFree, MainAt, NotifyWorker, NotifyMain, Workers, MainThreads,
     Refilling, WorkerMode, MainMode, BusyInv, Running
<1>1. ASSUME NEW w \in Asks, Ask(w) PROVE BusyInv'
  BY <1>1 DEF Ask
<1>2. ASSUME NEW v \in 1..MaxTickets, Discard(v) PROVE BusyInv'
  BY <1>2 DEF Discard
<1>3. ASSUME NEW c \in Classes, Collect(c) PROVE BusyInv'
  BY <1>3 DEF Collect, Answered
<1>4. ASSUME NEW how \in {"done", "failed"}, RunSync(how) PROVE BusyInv'
  BY <1>4 DEF RunSync
<1>5. ASSUME NEW failed \in BOOLEAN, FinishBatch(failed) PROVE BusyInv'
  BY <1>5 DEF FinishBatch, Post, Freed
<1>6. ASSUME NEW failed \in BOOLEAN, FinishLod(failed) PROVE BusyInv'
  BY <1>6 DEF FinishLod, Post, Freed
<1>7. CASE EnterBatch
  BY <1>7 DEF EnterBatch
<1>8. CASE EnterUpdate
  BY <1>8 DEF EnterUpdate
<1>9. CASE EnterVolume
  BY <1>9 DEF EnterVolume
<1>10. CASE CancelForRebuild
  BY <1>10 DEF CancelForRebuild, FailedResults
<1>11. CASE Diagnose
  BY <1>11 DEF Diagnose
<1>12. CASE WaitTurn
  BY <1>12 DEF WaitTurn, MyTurn
<1>13. CASE SyncReturns
  BY <1>13 DEF SyncReturns
<1>14. CASE Stop
  BY <1>14 DEF Stop
<1>15. CASE Restart
  BY <1>15 DEF Restart
<1>16. CASE WorkerSleeps
  BY <1>16 DEF WorkerSleeps, WorkerAwake
<1>17. CASE WorkerExits
  BY <1>17 DEF WorkerExits, WorkerAwake
<1>18. CASE TakeSync
  BY <1>18 DEF TakeSync, WorkerAwake
<1>19. CASE TakeUpdates
  BY <1>19 DEF TakeUpdates, MayServe, WorkerAwake
<1>20. CASE TakeVolumes
  BY <1>20 DEF TakeVolumes, MayServe, WorkerAwake
<1>21. CASE TakeBatch
  BY <1>21 DEF TakeBatch, MayServe, WorkerAwake
<1>22. CASE ApplyData
  BY <1>22 DEF ApplyData, NotifyAfterData
<1>23. CASE FallThroughMesh
  BY <1>23 DEF FallThroughMesh, Freed
<1>24. CASE RestoreFails
  BY <1>24 DEF RestoreFails
<1>25. CASE PostSpoiled
  BY <1>25 DEF PostSpoiled, Post, Freed
<1>26. CASE UNCHANGED vars
  BY <1>26 DEF vars
<1> QED
  BY <1>1, <1>2, <1>3, <1>4, <1>5, <1>6, <1>7, <1>8, <1>9, <1>10, <1>11, <1>12, <1>13,
    <1>14, <1>15, <1>16, <1>17, <1>18, <1>19, <1>20, <1>21, <1>22, <1>23, <1>24, <1>25,
    <1>26 DEF Next, MainStep, WorkerStep

(* A request on its way has a number nothing in the service has.           *)
LEMMA NumberedStep ==
  ASSUME ServiceInv, [Next]_vars
  PROVE  Numbered'
<1> USE ServiceAssumption DEF ServiceInv, ServiceTypeOK, queues, data, world, AtTop,
     Holding, AtWork, MainFree, MainAt, NotifyWorker, NotifyMain, Workers, MainThreads,
     Refilling, WorkerMode, MainMode, Numbered, Given
<1>1. ASSUME NEW w \in Asks, Ask(w) PROVE Numbered'
  BY <1>1 DEF Ask, Answered
<1>2. ASSUME NEW v \in 1..MaxTickets, Discard(v) PROVE Numbered'
  BY <1>2 DEF Discard, Answered
<1>3. ASSUME NEW c \in Classes, Collect(c) PROVE Numbered'
  BY <1>3, CollectAnswers DEF Collect
<1>4. ASSUME NEW how \in {"done", "failed"}, RunSync(how) PROVE Numbered'
  BY <1>4 DEF RunSync, Answered
<1>5. ASSUME NEW failed \in BOOLEAN, FinishBatch(failed) PROVE Numbered'
  <2>1. PICK c \in Classes :
           /\ worker.class = c /\ worker.jobs # {}
           /\ Answered(c)' = Answered(c) \cup worker.jobs
           /\ \A d \in Classes \ {c} : Answered(d)' = Answered(d)
           /\ \A d \in Classes : /\ Running(d) = IF d = c THEN worker.jobs ELSE {}
                                 /\ Running(d)' = {}
           /\ pending' = pending /\ awaited' = awaited
           /\ tickets' = tickets /\ wanted' = wanted
           /\ worker'.class = None
           /\ main'.at = main.at /\ main'.what = main.what
    BY <1>5, BatchEnds
  <2>2. worker.jobs \subseteq Given /\ Given' = Given
    BY <2>1
  <2>3. \A d \in Classes : pending'[d] \cup Answered(d)' \subseteq Given
    BY <2>1, <2>2
  <2> QED
    BY <2>1, <2>2, <2>3
<1>6. ASSUME NEW failed \in BOOLEAN, FinishLod(failed) PROVE Numbered'
  <2>1. PICK c \in Classes :
           /\ worker.class = c /\ worker.jobs # {}
           /\ Answered(c)' = Answered(c) \cup worker.jobs
           /\ \A d \in Classes \ {c} : Answered(d)' = Answered(d)
           /\ \A d \in Classes : /\ Running(d) = IF d = c THEN worker.jobs ELSE {}
                                 /\ Running(d)' = {}
           /\ pending' = pending /\ awaited' = awaited
           /\ tickets' = tickets /\ wanted' = wanted
           /\ worker'.class = None
           /\ main'.at = main.at /\ main'.what = main.what
    BY <1>6, BatchEnds
  <2>2. worker.jobs \subseteq Given /\ Given' = Given
    BY <2>1
  <2>3. \A d \in Classes : pending'[d] \cup Answered(d)' \subseteq Given
    BY <2>1, <2>2
  <2> QED
    BY <2>1, <2>2, <2>3
<1>7. CASE EnterBatch
  BY <1>7 DEF EnterBatch, Answered
<1>8. CASE EnterUpdate
  BY <1>8 DEF EnterUpdate, Answered
<1>9. CASE EnterVolume
  BY <1>9 DEF EnterVolume, Answered
<1>10. CASE CancelForRebuild
  BY <1>10, CancelAnswers DEF CancelForRebuild
<1>11. CASE Diagnose
  BY <1>11 DEF Diagnose, Answered
<1>12. CASE WaitTurn
  BY <1>12 DEF WaitTurn, MyTurn, Answered
<1>13. CASE SyncReturns
  BY <1>13 DEF SyncReturns, Answered
<1>14. CASE Stop
  BY <1>14 DEF Stop, Answered
<1>15. CASE Restart
  BY <1>15 DEF Restart, Answered
<1>16. CASE WorkerSleeps
  BY <1>16 DEF WorkerSleeps, WorkerAwake, Answered
<1>17. CASE WorkerExits
  BY <1>17 DEF WorkerExits, WorkerAwake, Answered
<1>18. CASE TakeSync
  BY <1>18 DEF TakeSync, WorkerAwake, Answered
<1>19. CASE TakeUpdates
  BY <1>19 DEF TakeUpdates, MayServe, WorkerAwake, Answered
<1>20. CASE TakeVolumes
  BY <1>20 DEF TakeVolumes, MayServe, WorkerAwake, Answered
<1>21. CASE TakeBatch
  BY <1>21, NextClassWaits DEF TakeBatch, MayServe, WorkerAwake, Waiting, Answered
<1>22. CASE ApplyData
  BY <1>22 DEF ApplyData, NotifyAfterData, Answered
<1>23. CASE FallThroughMesh
  BY <1>23 DEF FallThroughMesh, Freed, Answered
<1>24. CASE RestoreFails
  BY <1>24 DEF RestoreFails, Answered
<1>25. CASE PostSpoiled
  <2>1. PICK c \in Classes :
           /\ worker.class = c /\ worker.jobs # {}
           /\ Answered(c)' = Answered(c) \cup worker.jobs
           /\ \A d \in Classes \ {c} : Answered(d)' = Answered(d)
           /\ \A d \in Classes : /\ Running(d) = IF d = c THEN worker.jobs ELSE {}
                                 /\ Running(d)' = {}
           /\ pending' = pending /\ awaited' = awaited
           /\ tickets' = tickets /\ wanted' = wanted
           /\ worker'.class = None
           /\ main'.at = main.at /\ main'.what = main.what
    BY <1>25, BatchEnds
  <2>2. worker.jobs \subseteq Given /\ Given' = Given
    BY <2>1
  <2>3. \A d \in Classes : pending'[d] \cup Answered(d)' \subseteq Given
    BY <2>1, <2>2
  <2> QED
    BY <2>1, <2>2, <2>3
<1>26. CASE UNCHANGED vars
  BY <1>26 DEF vars, Answered
<1> QED
  BY <1>1, <1>2, <1>3, <1>4, <1>5, <1>6, <1>7, <1>8, <1>9, <1>10, <1>11, <1>12, <1>13,
    <1>14, <1>15, <1>16, <1>17, <1>18, <1>19, <1>20, <1>21, <1>22, <1>23, <1>24, <1>25,
    <1>26 DEF Next, MainStep, WorkerStep

(* Every step keeps a batch somewhere as long as its client waits.         *)
LEMMA PlacedStep ==
  ASSUME ServiceInv, [Next]_vars
  PROVE  Placed'
<1> USE ServiceAssumption DEF ServiceInv, ServiceTypeOK, queues, data, world, AtTop,
     Holding, AtWork, MainFree, MainAt, NotifyWorker, NotifyMain, Workers, MainThreads,
     Refilling, WorkerMode, MainMode, Placed, Running
<1>1. ASSUME NEW w \in Asks, Ask(w) PROVE Placed'
  BY <1>1 DEF Ask, Answered
<1>2. ASSUME NEW v \in 1..MaxTickets, Discard(v) PROVE Placed'
  BY <1>2 DEF Discard, Answered
<1>3. ASSUME NEW c \in Classes, Collect(c) PROVE Placed'
  <2>1. /\ Answered(c)' = {}
        /\ \A d \in Classes \ {c} : Answered(d)' = Answered(d)
    BY <1>3, CollectAnswers
  <2>2. \A d \in Classes : Running(d)' = Running(d) /\ pending'[d] = pending[d]
    BY <1>3 DEF Collect
  <2>3. \A d \in Classes : awaited'[d] = IF d = c THEN awaited[d] \ Answered(d) ELSE awaited[d]
    BY <1>3 DEF Collect
  <2>4. main.at # "joins" /\ (pending[c] \cup Running(c)) \cap Answered(c) = {}
    BY <1>3 DEF Collect, Apart
  <2>5. ASSUME NEW d \in Classes
        PROVE  awaited'[d] = pending'[d] \cup Running(d)' \cup Answered(d)'
    <3>1. awaited[d] = pending[d] \cup Running(d) \cup Answered(d)
      BY <2>4
    <3>2. CASE d = c
      BY <2>1, <2>2, <2>3, <2>4, <3>1, <3>2
    <3>3. CASE d # c
      BY <2>1, <2>2, <2>3, <3>1, <3>3
    <3> QED
      BY <3>2, <3>3
  <2> QED
    BY <2>5
<1>4. ASSUME NEW how \in {"done", "failed"}, RunSync(how) PROVE Placed'
  BY <1>4 DEF RunSync, Answered
<1>5. ASSUME NEW failed \in BOOLEAN, FinishBatch(failed) PROVE Placed'
  <2>1. PICK c \in Classes :
           /\ worker.class = c /\ worker.jobs # {}
           /\ Answered(c)' = Answered(c) \cup worker.jobs
           /\ \A d \in Classes \ {c} : Answered(d)' = Answered(d)
           /\ \A d \in Classes : /\ Running(d) = IF d = c THEN worker.jobs ELSE {}
                                 /\ Running(d)' = {}
           /\ pending' = pending /\ awaited' = awaited
           /\ tickets' = tickets /\ wanted' = wanted
           /\ worker'.class = None
           /\ main'.at = main.at /\ main'.what = main.what
    BY <1>5, BatchEnds
  <2> QED
    BY <2>1
<1>6. ASSUME NEW failed \in BOOLEAN, FinishLod(failed) PROVE Placed'
  <2>1. PICK c \in Classes :
           /\ worker.class = c /\ worker.jobs # {}
           /\ Answered(c)' = Answered(c) \cup worker.jobs
           /\ \A d \in Classes \ {c} : Answered(d)' = Answered(d)
           /\ \A d \in Classes : /\ Running(d) = IF d = c THEN worker.jobs ELSE {}
                                 /\ Running(d)' = {}
           /\ pending' = pending /\ awaited' = awaited
           /\ tickets' = tickets /\ wanted' = wanted
           /\ worker'.class = None
           /\ main'.at = main.at /\ main'.what = main.what
    BY <1>6, BatchEnds
  <2> QED
    BY <2>1
<1>7. CASE EnterBatch
  BY <1>7 DEF EnterBatch, Answered
<1>8. CASE EnterUpdate
  BY <1>8 DEF EnterUpdate, Answered
<1>9. CASE EnterVolume
  BY <1>9 DEF EnterVolume, Answered
<1>10. CASE CancelForRebuild
  <2>1. \A d \in Classes : Running(d) = {}
    BY <1>10 DEF CancelForRebuild
  <2>2. ASSUME NEW d \in Classes PROVE awaited'[d] = Answered(d)'
    <3>1. d \in {"bake", "publish"} => pending[d] = {}
      BY <1>10 DEF CancelForRebuild, SpoiledAnswers
    <3>2. Answered(d)' = IF d \in {"bake", "publish"} THEN Answered(d)
                         ELSE Answered(d) \cup pending[d]
      BY <1>10, CancelAnswers DEF CancelForRebuild
    <3>3. awaited'[d] = pending[d] \cup Running(d) \cup Answered(d)
      BY <1>10 DEF CancelForRebuild
    <3> QED
      BY <2>1, <3>1, <3>2, <3>3
  <2>3. \A d \in Classes : pending'[d] = {} /\ Running(d)' = {}
    BY <1>10, <2>1 DEF CancelForRebuild
  <2> QED
    BY <2>2, <2>3
<1>11. CASE Diagnose
  BY <1>11 DEF Diagnose, Answered
<1>12. CASE WaitTurn
  BY <1>12 DEF WaitTurn, MyTurn, Answered
<1>13. CASE SyncReturns
  BY <1>13 DEF SyncReturns, Answered
<1>14. CASE Stop
  BY <1>14 DEF Stop, Answered
<1>15. CASE Restart
  <2>1. \A d \in Classes : awaited'[d] = {} /\ pending'[d] = {} /\ results'[d] = {}
    BY <1>15 DEF Restart, Clients
  <2> QED
    BY <1>15, <2>1 DEF Restart, Answered
<1>16. CASE WorkerSleeps
  BY <1>16 DEF WorkerSleeps, WorkerAwake, Answered
<1>17. CASE WorkerExits
  BY <1>17 DEF WorkerExits, WorkerAwake, Answered
<1>18. CASE TakeSync
  BY <1>18 DEF TakeSync, WorkerAwake, Answered
<1>19. CASE TakeUpdates
  BY <1>19 DEF TakeUpdates, MayServe, WorkerAwake, Answered
<1>20. CASE TakeVolumes
  BY <1>20 DEF TakeVolumes, MayServe, WorkerAwake, Answered
<1>21. CASE TakeBatch
  BY <1>21, NextClassWaits DEF TakeBatch, MayServe, WorkerAwake, Waiting, Answered
<1>22. CASE ApplyData
  BY <1>22 DEF ApplyData, NotifyAfterData, Answered
<1>23. CASE FallThroughMesh
  BY <1>23 DEF FallThroughMesh, Freed, Answered
<1>24. CASE RestoreFails
  BY <1>24 DEF RestoreFails, Answered
<1>25. CASE PostSpoiled
  <2>1. PICK c \in Classes :
           /\ worker.class = c /\ worker.jobs # {}
           /\ Answered(c)' = Answered(c) \cup worker.jobs
           /\ \A d \in Classes \ {c} : Answered(d)' = Answered(d)
           /\ \A d \in Classes : /\ Running(d) = IF d = c THEN worker.jobs ELSE {}
                                 /\ Running(d)' = {}
           /\ pending' = pending /\ awaited' = awaited
           /\ tickets' = tickets /\ wanted' = wanted
           /\ worker'.class = None
           /\ main'.at = main.at /\ main'.what = main.what
    BY <1>25, BatchEnds
  <2> QED
    BY <2>1
<1>26. CASE UNCHANGED vars
  BY <1>26 DEF vars, Answered
<1> QED
  BY <1>1, <1>2, <1>3, <1>4, <1>5, <1>6, <1>7, <1>8, <1>9, <1>10, <1>11, <1>12, <1>13,
    <1>14, <1>15, <1>16, <1>17, <1>18, <1>19, <1>20, <1>21, <1>22, <1>23, <1>24, <1>25,
    <1>26 DEF Next, MainStep, WorkerStep

(* No step leaves a batch in two places.                                   *)
LEMMA ApartStep ==
  ASSUME ServiceInv, [Next]_vars
  PROVE  Apart'
<1> USE ServiceAssumption DEF ServiceInv, ServiceTypeOK, queues, data, world, AtTop,
     Holding, AtWork, MainFree, MainAt, NotifyWorker, NotifyMain, Workers, MainThreads,
     Refilling, WorkerMode, MainMode, Apart, Running
<1>1. ASSUME NEW w \in Asks, Ask(w) PROVE Apart'
  BY <1>1 DEF Ask, Answered
<1>2. ASSUME NEW v \in 1..MaxTickets, Discard(v) PROVE Apart'
  BY <1>2 DEF Discard, Answered
<1>3. ASSUME NEW c \in Classes, Collect(c) PROVE Apart'
  <2>1. \A d \in Classes : Answered(d)' \subseteq Answered(d)
    BY <1>3, CollectAnswers
  <2> QED
    BY <1>3, <2>1 DEF Collect
<1>4. ASSUME NEW how \in {"done", "failed"}, RunSync(how) PROVE Apart'
  BY <1>4 DEF RunSync, Answered
<1>5. ASSUME NEW failed \in BOOLEAN, FinishBatch(failed) PROVE Apart'
  <2>1. PICK c \in Classes :
           /\ worker.class = c /\ worker.jobs # {}
           /\ Answered(c)' = Answered(c) \cup worker.jobs
           /\ \A d \in Classes \ {c} : Answered(d)' = Answered(d)
           /\ \A d \in Classes : /\ Running(d) = IF d = c THEN worker.jobs ELSE {}
                                 /\ Running(d)' = {}
           /\ pending' = pending /\ awaited' = awaited
           /\ tickets' = tickets /\ wanted' = wanted
           /\ worker'.class = None
           /\ main'.at = main.at /\ main'.what = main.what
    BY <1>5, BatchEnds
  <2> QED
    BY <2>1
<1>6. ASSUME NEW failed \in BOOLEAN, FinishLod(failed) PROVE Apart'
  <2>1. PICK c \in Classes :
           /\ worker.class = c /\ worker.jobs # {}
           /\ Answered(c)' = Answered(c) \cup worker.jobs
           /\ \A d \in Classes \ {c} : Answered(d)' = Answered(d)
           /\ \A d \in Classes : /\ Running(d) = IF d = c THEN worker.jobs ELSE {}
                                 /\ Running(d)' = {}
           /\ pending' = pending /\ awaited' = awaited
           /\ tickets' = tickets /\ wanted' = wanted
           /\ worker'.class = None
           /\ main'.at = main.at /\ main'.what = main.what
    BY <1>6, BatchEnds
  <2> QED
    BY <2>1
<1>7. CASE EnterBatch
  <2>1. main.what \in Classes /\ tickets \notin Given
    BY <1>7 DEF EnterBatch, Given
  <2>2. tickets \notin Answered(main.what) /\ tickets \notin Running(main.what)
    BY <2>1 DEF Numbered
  <2>3. ASSUME NEW d \in Classes
        PROVE  /\ Answered(d)' = Answered(d) /\ Running(d)' = Running(d)
               /\ pending'[d] = pending[d] \/ (d = main.what /\ pending'[d] = {tickets})
    BY <1>7, <2>1 DEF EnterBatch, Answered
  <2>4. ASSUME NEW d \in Classes
        PROVE  /\ pending'[d] \cap Running(d)' = {}
               /\ (pending'[d] \cup Running(d)') \cap Answered(d)' = {}
    BY <2>2, <2>3
  <2> QED
    BY <2>4
<1>8. CASE EnterUpdate
  BY <1>8 DEF EnterUpdate, Answered
<1>9. CASE EnterVolume
  BY <1>9 DEF EnterVolume, Answered
<1>10. CASE CancelForRebuild
  BY <1>10, CancelAnswers DEF CancelForRebuild
<1>11. CASE Diagnose
  BY <1>11 DEF Diagnose, Answered
<1>12. CASE WaitTurn
  BY <1>12 DEF WaitTurn, MyTurn, Answered
<1>13. CASE SyncReturns
  BY <1>13 DEF SyncReturns, Answered
<1>14. CASE Stop
  BY <1>14 DEF Stop, Answered
<1>15. CASE Restart
  BY <1>15 DEF Restart, Answered
<1>16. CASE WorkerSleeps
  BY <1>16 DEF WorkerSleeps, WorkerAwake, Answered
<1>17. CASE WorkerExits
  BY <1>17 DEF WorkerExits, WorkerAwake, Answered
<1>18. CASE TakeSync
  BY <1>18 DEF TakeSync, WorkerAwake, Answered
<1>19. CASE TakeUpdates
  BY <1>19 DEF TakeUpdates, MayServe, WorkerAwake, Answered
<1>20. CASE TakeVolumes
  BY <1>20 DEF TakeVolumes, MayServe, WorkerAwake, Answered
<1>21. CASE TakeBatch
  BY <1>21, NextClassWaits DEF TakeBatch, MayServe, WorkerAwake, Waiting, Answered
<1>22. CASE ApplyData
  BY <1>22 DEF ApplyData, NotifyAfterData, Answered
<1>23. CASE FallThroughMesh
  BY <1>23 DEF FallThroughMesh, Freed, Answered
<1>24. CASE RestoreFails
  BY <1>24 DEF RestoreFails, Answered
<1>25. CASE PostSpoiled
  <2>1. PICK c \in Classes :
           /\ worker.class = c /\ worker.jobs # {}
           /\ Answered(c)' = Answered(c) \cup worker.jobs
           /\ \A d \in Classes \ {c} : Answered(d)' = Answered(d)
           /\ \A d \in Classes : /\ Running(d) = IF d = c THEN worker.jobs ELSE {}
                                 /\ Running(d)' = {}
           /\ pending' = pending /\ awaited' = awaited
           /\ tickets' = tickets /\ wanted' = wanted
           /\ worker'.class = None
           /\ main'.at = main.at /\ main'.what = main.what
    BY <1>25, BatchEnds
  <2> QED
    BY <2>1
<1>26. CASE UNCHANGED vars
  BY <1>26 DEF vars, Answered
<1> QED
  BY <1>1, <1>2, <1>3, <1>4, <1>5, <1>6, <1>7, <1>8, <1>9, <1>10, <1>11, <1>12, <1>13,
    <1>14, <1>15, <1>16, <1>17, <1>18, <1>19, <1>20, <1>21, <1>22, <1>23, <1>24, <1>25,
    <1>26 DEF Next, MainStep, WorkerStep

(* One transaction at a time, and no client across a restart.              *)
LEMMA ClientsStep ==
  ASSUME ServiceInv, [Next]_vars
  PROVE  Clients'
<1> USE ServiceAssumption DEF ServiceInv, ServiceTypeOK, queues, data, world, AtTop,
     Holding, AtWork, MainFree, MainAt, NotifyWorker, NotifyMain, Workers, MainThreads,
     Refilling, WorkerMode, MainMode, Clients
<1>1. ASSUME NEW w \in Asks, Ask(w) PROVE Clients'
  <2>1. w \in {"bake", "publish"} => awaited["bake"] = {} /\ awaited["publish"] = {}
    <3> HIDE DEF ServiceInv, Clients
    <3> QED
      BY <1>1 DEF Ask, MayAsk
  <2>2. awaited' = awaited /\ main.at = "free"
    BY <1>1 DEF Ask
  <2>3. main' = main \/ (main'.at = "enters" /\ main'.what = w /\ w \notin {"start"})
    BY <1>1 DEF Ask, Classes
  <2> QED
    BY <2>1, <2>2, <2>3
<1>2. ASSUME NEW v \in 1..MaxTickets, Discard(v) PROVE Clients'
  BY <1>2 DEF Discard, Answered
<1>3. ASSUME NEW c \in Classes, Collect(c) PROVE Clients'
  BY <1>3, CollectAnswers DEF Collect
<1>4. ASSUME NEW how \in {"done", "failed"}, RunSync(how) PROVE Clients'
  BY <1>4 DEF RunSync, Answered
<1>5. ASSUME NEW failed \in BOOLEAN, FinishBatch(failed) PROVE Clients'
  BY <1>5, PostAnswers DEF FinishBatch, Post, Freed
<1>6. ASSUME NEW failed \in BOOLEAN, FinishLod(failed) PROVE Clients'
  BY <1>6, PostAnswers DEF FinishLod, Post, Freed
<1>7. CASE EnterBatch
  <2>1. \A d \in Classes : d # main.what => awaited'[d] = awaited[d]
    BY <1>7 DEF EnterBatch
  <2>2. "bake" \in Classes /\ "publish" \in Classes
    BY DEF Classes
  <2> QED
    BY <1>7, <2>1, <2>2 DEF EnterBatch
<1>8. CASE EnterUpdate
  BY <1>8 DEF EnterUpdate, Answered
<1>9. CASE EnterVolume
  BY <1>9 DEF EnterVolume, Answered
<1>10. CASE CancelForRebuild
  BY <1>10, CancelAnswers DEF CancelForRebuild
<1>11. CASE Diagnose
  BY <1>11 DEF Diagnose, Answered
<1>12. CASE WaitTurn
  BY <1>12 DEF WaitTurn, MyTurn, Answered
<1>13. CASE SyncReturns
  BY <1>13 DEF SyncReturns, Answered
<1>14. CASE Stop
  BY <1>14 DEF Stop, Answered
<1>15. CASE Restart
  <2>1. awaited' = awaited /\ \A c \in Classes : awaited[c] = {}
    BY <1>15 DEF Restart
  <2> QED
    BY <1>15, <2>1 DEF Restart, Classes
<1>16. CASE WorkerSleeps
  BY <1>16 DEF WorkerSleeps, WorkerAwake, Answered
<1>17. CASE WorkerExits
  BY <1>17 DEF WorkerExits, WorkerAwake, Answered
<1>18. CASE TakeSync
  BY <1>18 DEF TakeSync, WorkerAwake, Answered
<1>19. CASE TakeUpdates
  BY <1>19 DEF TakeUpdates, MayServe, WorkerAwake, Answered
<1>20. CASE TakeVolumes
  BY <1>20 DEF TakeVolumes, MayServe, WorkerAwake, Answered
<1>21. CASE TakeBatch
  BY <1>21, NextClassWaits DEF TakeBatch, MayServe, WorkerAwake, Waiting, Answered
<1>22. CASE ApplyData
  BY <1>22 DEF ApplyData, NotifyAfterData, Answered
<1>23. CASE FallThroughMesh
  BY <1>23 DEF FallThroughMesh, Freed, Answered
<1>24. CASE RestoreFails
  BY <1>24 DEF RestoreFails, Answered
<1>25. CASE PostSpoiled
  BY <1>25, PostAnswers DEF PostSpoiled, Post, Freed
<1>26. CASE UNCHANGED vars
  BY <1>26 DEF vars, Answered
<1> QED
  BY <1>1, <1>2, <1>3, <1>4, <1>5, <1>6, <1>7, <1>8, <1>9, <1>10, <1>11, <1>12, <1>13,
    <1>14, <1>15, <1>16, <1>17, <1>18, <1>19, <1>20, <1>21, <1>22, <1>23, <1>24, <1>25,
    <1>26 DEF Next, MainStep, WorkerStep

(* Data stays on its way until it lands, and before the jobs after it.     *)
LEMMA DataStep ==
  ASSUME ServiceInv, [Next]_vars
  PROVE  DataOnItsWay'
<1> USE ServiceAssumption DEF ServiceInv, ServiceTypeOK, queues, data, world, AtTop,
     Holding, AtWork, MainFree, MainAt, NotifyWorker, NotifyMain, Workers, MainThreads,
     Refilling, WorkerMode, MainMode, DataOnItsWay, JobsSeeTheirData, SeesAll, Covered,
     Taken
<1>1. ASSUME NEW w \in Asks, Ask(w) PROVE DataOnItsWay'
  <2>1. /\ main.at = "free" /\ worker' = worker /\ landed' = landed
        /\ updates' = updates /\ volumes' = volumes /\ valid' = valid /\ sync' = sync
        /\ tickets' = tickets + 1
        /\ IF valid THEN main' = MainAt("enters", w) ELSE main' = main
    BY <1>1 DEF Ask
  <2>2. worker.class # None => \A j \in worker.jobs : j <= tickets
    BY <2>1 DEF Numbered, Given
  <2>3. /\ \A d \in wanted'["update"] : d \in wanted["update"] \/ (d = tickets + 1 /\ w = "update")
        /\ \A d \in Taken' : d \in Taken \/ (d = tickets + 1 /\ w = "volume" /\ valid)
    BY <1>1 DEF Ask
  <2>4. JobsSeeTheirData'
    BY <2>1, <2>2, <2>3
  <2> QED
    BY <2>1, <2>3, <2>4
<1>2. ASSUME NEW v \in 1..MaxTickets, Discard(v) PROVE DataOnItsWay'
  BY <1>2 DEF Discard
<1>3. ASSUME NEW c \in Classes, Collect(c) PROVE DataOnItsWay'
  BY <1>3 DEF Collect, Answered
<1>4. ASSUME NEW how \in {"done", "failed"}, RunSync(how) PROVE DataOnItsWay'
  BY <1>4 DEF RunSync
<1>5. ASSUME NEW failed \in BOOLEAN, FinishBatch(failed) PROVE DataOnItsWay'
  BY <1>5 DEF FinishBatch, Post, Freed
<1>6. ASSUME NEW failed \in BOOLEAN, FinishLod(failed) PROVE DataOnItsWay'
  BY <1>6 DEF FinishLod, Post, Freed
<1>7. CASE EnterBatch
  <2>1. /\ main.what \notin {"update", "volume"} /\ main' = MainFree
        /\ landed' = landed /\ updates' = updates /\ volumes' = volumes
        /\ valid' = valid /\ sync' = sync /\ wanted' = wanted
    BY <1>7 DEF EnterBatch, Classes
  <2>2. worker'.at = worker.at /\ worker'.jobs = worker.jobs
    BY <1>7, WakingMovesNobody DEF EnterBatch
  <2>3. main.at = "enters"
    BY <1>7 DEF EnterBatch
  <2>4. JobsSeeTheirData'
    BY <2>1, <2>2
  <2>5. main.what # "start"
    BY <2>3
  <2> QED
    BY <2>1, <2>2, <2>3, <2>4, <2>5
<1>8. CASE EnterUpdate
  <2>1. /\ main.at = "enters" /\ main.what = "update" /\ main' = MainFree
        /\ landed' = landed /\ updates' = updates \cup {tickets} /\ volumes' = volumes
        /\ valid' = valid /\ sync' = sync /\ wanted' = wanted
    BY <1>8 DEF EnterUpdate
  <2>2. worker'.at = worker.at /\ worker'.jobs = worker.jobs
    BY <1>8, WakingMovesNobody DEF EnterUpdate
  <2>3. JobsSeeTheirData'
    BY <2>1, <2>2
  <2>4. main.what # "start" /\ main'.at # "synced"
    BY <2>1
  <2> QED
    BY <2>1, <2>2, <2>3, <2>4
<1>9. CASE EnterVolume
  <2>1. /\ main.at = "enters" /\ main.what = "volume" /\ main' = MainFree
        /\ landed' = landed /\ volumes' = volumes \cup {tickets} /\ updates' = updates
        /\ valid' = valid /\ sync' = sync /\ wanted' = wanted
    BY <1>9 DEF EnterVolume
  <2>2. worker'.at = worker.at /\ worker'.jobs = worker.jobs
    BY <1>9, WakingMovesNobody DEF EnterVolume
  <2>3. JobsSeeTheirData'
    BY <2>1, <2>2
  <2>4. main.what # "start" /\ main'.at # "synced"
    BY <2>1
  <2> QED
    BY <2>1, <2>2, <2>3, <2>4
<1>10. CASE CancelForRebuild
  BY <1>10 DEF CancelForRebuild, FailedResults
<1>11. CASE Diagnose
  BY <1>11 DEF Diagnose
<1>12. CASE WaitTurn
  BY <1>12 DEF WaitTurn, MyTurn
<1>13. CASE SyncReturns
  BY <1>13 DEF SyncReturns
<1>14. CASE Stop
  BY <1>14 DEF Stop
<1>15. CASE Restart
  BY <1>15 DEF Restart
<1>16. CASE WorkerSleeps
  BY <1>16 DEF WorkerSleeps, WorkerAwake
<1>17. CASE WorkerExits
  BY <1>17 DEF WorkerExits, WorkerAwake
<1>18. CASE TakeSync
  BY <1>18 DEF TakeSync, WorkerAwake
<1>19. CASE TakeUpdates
  BY <1>19 DEF TakeUpdates, MayServe, WorkerAwake
<1>20. CASE TakeVolumes
  BY <1>20 DEF TakeVolumes, MayServe, WorkerAwake
<1>21. CASE TakeBatch
  <2>1. NextClass \in Classes /\ pending[NextClass] # {}
    BY <1>21, NextClassWaits DEF TakeBatch, Waiting
  <2>2. /\ valid /\ worker.at = "top" /\ main.at # "joins" /\ ~Refilling
        /\ updates = {} /\ volumes = {}
    BY <1>21, <2>1 DEF TakeBatch, MayServe, WorkerAwake, Stopping, DataFirst
  <2>3. /\ worker'.jobs = pending[NextClass] /\ worker'.at = "holds"
        /\ main' = main /\ landed' = landed /\ wanted' = wanted
        /\ updates' = {} /\ volumes' = {} /\ valid' = valid /\ sync' = sync
        /\ tickets' = tickets
    BY <1>21, <2>2 DEF TakeBatch
  <2>4. \A j \in pending[NextClass] : /\ j <= tickets
                                      /\ main.at = "enters" => j < tickets
    BY <2>1 DEF Numbered, Given
  <2>5. \A d \in wanted["update"] \cup Taken : d \in landed \/ (main.at = "enters" /\ d = tickets)
    BY <2>2
  <2>6. ASSUME NEW j \in pending[NextClass], NEW d \in wanted["update"] \cup Taken, d < j
        PROVE  d \in landed
    <3>1. j \in Nat /\ d \in Nat /\ tickets \in Nat
      BY <2>1
    <3> QED
      BY <2>4, <2>5, <2>6, <3>1
  <2>7. JobsSeeTheirData'
    BY <2>3, <2>6
  <2> QED
    BY <2>2, <2>3, <2>7
<1>22. CASE ApplyData
  BY <1>22 DEF ApplyData, NotifyAfterData
<1>23. CASE FallThroughMesh
  BY <1>23 DEF FallThroughMesh, Freed
<1>24. CASE RestoreFails
  BY <1>24 DEF RestoreFails
<1>25. CASE PostSpoiled
  BY <1>25 DEF PostSpoiled, Post, Freed
<1>26. CASE UNCHANGED vars
  BY <1>26 DEF vars
<1> QED
  BY <1>1, <1>2, <1>3, <1>4, <1>5, <1>6, <1>7, <1>8, <1>9, <1>10, <1>11, <1>12, <1>13,
    <1>14, <1>15, <1>16, <1>17, <1>18, <1>19, <1>20, <1>21, <1>22, <1>23, <1>24, <1>25,
    <1>26 DEF Next, MainStep, WorkerStep

-----------------------------------------------------------------------------

(* The service starts empty.                                               *)
LEMMA ServiceInvInit == Init => ServiceInv
<1> SUFFICES ASSUME Init PROVE ServiceInv
  OBVIOUS
<1>1. ServiceTypeOK
  BY ServiceTypeInit
<1>2. \A c \in Classes : Running(c) = {} /\ Answered(c) = {}
  BY ServiceAssumption DEF Init, AtTop, Running, Answered, ServiceAssumption
<1>3. WorkerMode /\ MainMode /\ SpoiledAnswers /\ Clients
  BY ServiceAssumption DEF Init, AtTop, MainFree, WorkerMode, MainMode, SpoiledAnswers, Clients,
    Refilling, Classes, ServiceAssumption
<1>4. BusyInv /\ Numbered /\ Placed /\ Apart
  BY <1>2 DEF Init, AtTop, MainFree, BusyInv, Numbered, Placed, Apart, Given
<1>5. DataOnItsWay
  BY DEF Init, AtTop, MainFree, DataOnItsWay, JobsSeeTheirData, SeesAll, Covered, Taken
<1> QED
  BY <1>1, <1>3, <1>4, <1>5 DEF ServiceInv

(* All parts together are inductive.                                       *)
LEMMA ServiceInvStep == ServiceInv /\ [Next]_vars => ServiceInv'
<1> SUFFICES ASSUME ServiceInv, [Next]_vars PROVE ServiceInv'
  OBVIOUS
<1>1. ServiceTypeOK'
  BY ServiceTypeStep DEF ServiceInv
<1>2. WorkerMode' /\ MainMode' /\ SpoiledAnswers' /\ BusyInv'
  BY WorkerModeStep, MainModeStep, SpoiledAnswersStep, BusyStep
<1>3. Numbered' /\ Placed' /\ Apart' /\ Clients' /\ DataOnItsWay'
  BY NumberedStep, PlacedStep, ApartStep, ClientsStep, DataStep
<1> QED
  BY <1>1, <1>2, <1>3 DEF ServiceInv

(* The inductive invariant holds throughout.                               *)
THEOREM ServiceInvariant == Spec => []ServiceInv
BY ServiceInvInit, ServiceInvStep, PTL DEF Spec

(* What a client waits for is queued, running or answered, in exactly one  *)
(* place, whatever was cancelled, restarted or failed in between: no batch *)
(* of MeshService is lost and none is answered twice.                      *)
THEOREM BatchesKeepTheirPlace == Spec => []EveryBatchHasItsPlace
<1>1. ServiceInv => EveryBatchHasItsPlace
  BY DEF ServiceInv, EveryBatchHasItsPlace, Placed, Apart, BusyInv
<1> QED
  BY <1>1, ServiceInvariant, PTL

(* The worker whose bytes a failed publication spoiled runs nothing until  *)
(* the main thread has filled its pools again.                             *)
THEOREM SpoiledBytesServeNobody == Spec => []NoJobOnSpoiledBytes
<1>1. ServiceInv => NoJobOnSpoiledBytes
  BY DEF ServiceInv, ServiceTypeOK, Workers, WorkerMode, NoJobOnSpoiledBytes
<1> QED
  BY <1>1, ServiceInvariant, PTL

(* A job sees every table and every volume that was handed over before it  *)
(* was submitted, across rebuilds and restarts of the worker.              *)
THEOREM DataComesFirst == Spec => []JobsSeeTheirData
<1>1. ServiceInv => JobsSeeTheirData
  BY DEF ServiceInv, DataOnItsWay
<1> QED
  BY <1>1, ServiceInvariant, PTL
=============================================================================

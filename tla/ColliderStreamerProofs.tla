------------------------ MODULE ColliderStreamerProofs ------------------------
(***************************************************************************)
(* The bodies of a chunk are those of its slot, they only give way to      *)
(* newer ones, and a chunk that counts as ready collides as it is.         *)
(*                                                                         *)
(* A mesh comes back frames after it was asked for, and in the meantime    *)
(* the chunk may be edited, leave its slot and come back.  What keeps an   *)
(* old mesh out is the mark in inFlight: while one build of a chunk is     *)
(* outstanding no other is asked for and the chunk is given no new slot,   *)
(* so a chunk that still counts as building is waiting for exactly the     *)
(* mesh that arrives, of the field as it was when it was last drained.     *)
(***************************************************************************)
EXTENDS ColliderStreamer, TLAPS

Builds == [chunk : Chunks, version : Nat, kind : Kinds]
Finished == [chunk : Chunks, version : Nat, kind : Kinds, failed : BOOLEAN]
Replacements == [chunk : Chunks, slot : Slots, version : Nat, kind : Kinds, next : Nat]
Bodies == [chunk : Chunks, version : Nat]
MeshStates == [queued : SUBSET Builds, running : SUBSET Builds, busy : BOOLEAN,
               results : SUBSET Finished, valid : BOOLEAN]

ColliderTypeOK ==
  /\ field \in [Chunks -> [version : Nat, kind : Kinds]]
  /\ dirty \subseteq Chunks
  /\ slotOf \in [Chunks -> Slots \cup {None}]
  /\ state \in [Slots -> {"needsBuild", "building", "ready"}]
  /\ probes \in [Chunks -> {"unknown", "surface", "empty"}]
  /\ inFlight \subseteq Chunks
  /\ space \in [Slots -> Bodies \cup {None}]
  /\ inbox \subseteq Finished
  /\ staged \in Replacements \cup {None}
  /\ main \in {"idle", "stage", "more", "plan", "submit"}
  /\ builds \subseteq Chunks
  /\ mesh \in MeshStates
  /\ main # "submit" => builds = {}

(* The places a build passes through, and what is there.                   *)
Places == {"queued", "running", "results", "inbox", "staged"}

InPlace(p) ==
  IF p = "queued" THEN mesh.queued
  ELSE IF p = "running" THEN mesh.running
  ELSE IF p = "results" THEN mesh.results
  ELSE IF p = "inbox" THEN inbox
  ELSE {staged} \ {None}

(* A chunk is built once at a time, and is marked for as long.             *)
OneBuild ==
  /\ \A p, q \in Places : \A a \in InPlace(p), b \in InPlace(q) :
       a.chunk = b.chunk => p = q /\ a = b
  /\ \A p \in Places : \A a \in InPlace(p) : a.chunk \in inFlight \ builds
  /\ builds \subseteq inFlight

(* A mesh on its way is of the chunk as it was when it was asked for; and  *)
(* as it is, for a chunk that waits for it and was not edited since the    *)
(* last drain.  One that came back before the edits that wait is older.    *)
MeshesAge ==
  \A p \in Places : \A a \in InPlace(p) :
    /\ a.version <= field[a.chunk].version
    /\ StateOf(a.chunk) = "building" =>
         /\ a.chunk \notin dirty =>
              a.version = field[a.chunk].version /\ a.kind = field[a.chunk].kind
         /\ a.chunk \in dirty /\ p \in {"inbox", "staged"} =>
              a.version < field[a.chunk].version
         /\ space[slotOf[a.chunk]] # None => space[slotOf[a.chunk]].version < a.version

(* A build that is planned and not yet submitted is of a chunk that waits. *)
PlanStands == \A c \in builds : StateOf(c) = "building"

(* The bodies of a chunk that owes a mesh, or was edited, are old.         *)
BodiesAge ==
  \A s \in Slots : space[s] # None =>
    LET c == space[s].chunk
    IN  /\ space[s].version <= field[c].version
        /\ c \in dirty \/ state[s] # "ready" => space[s].version < field[c].version

ColliderInv ==
  /\ ColliderTypeOK
  /\ OneBuild
  /\ PlanStands
  /\ MeshesAge
  /\ BodiesAge
  /\ SpaceMatchesResidency
  /\ VerdictsAreTrue
-----------------------------------------------------------------------------
(* What a plan does to the residency, said of each chunk and slot: who     *)
(* comes had no build outstanding and finds an empty slot, who goes takes  *)
(* the bodies along, and only chunks that owe a mesh are built.            *)
PlanKeeps ==
  /\ builds' \subseteq Chunks \ inFlight
  /\ inFlight \subseteq inFlight' /\ builds' \subseteq inFlight' /\ inFlight' \subseteq Chunks
  /\ slotOf' \in [Chunks -> Slots \cup {None}]
  /\ \A c, d \in Chunks : slotOf'[c] # None /\ slotOf'[c] = slotOf'[d] => c = d
  /\ \A c \in Chunks :
       \/ slotOf'[c] = slotOf[c]
       \/ slotOf[c] # None /\ slotOf'[c] = None
       \/ /\ slotOf[c] = None /\ c \notin inFlight
          /\ \A d \in Chunks :
               slotOf'[d] # None /\ slotOf'[d] = slotOf[d] => slotOf'[d] # slotOf'[c]
          /\ state'[slotOf'[c]] = IF c \in builds' THEN "building" ELSE "needsBuild"
  /\ \A c \in Chunks : slotOf[c] # None /\ slotOf'[c] = slotOf[c] =>
       IF c \in builds' THEN /\ state[slotOf[c]] = "needsBuild"
                             /\ state'[slotOf[c]] = "building"
       ELSE state'[slotOf[c]] = state[slotOf[c]]
  /\ \A c \in builds' : slotOf'[c] # None
  /\ state' \in [Slots -> {"needsBuild", "building", "ready"}]
  /\ space' \in [Slots -> Bodies \cup {None}]
  /\ \A s \in Slots :
       space'[s] = IF \E c \in Chunks : slotOf[c] = s /\ slotOf'[c] # s THEN None ELSE space[s]
  /\ probes' \in [Chunks -> {"unknown", "surface", "empty"}]
  /\ \A c \in Chunks : probes'[c] = "empty" => probes[c] = "empty" \/ field[c].kind = "air"

(* Whatever the plan probes, settles, places and builds, it does no more.  *)
LEMMA PlanFacts ==
  ASSUME ColliderTypeOK, NEW cap, Update(cap),
         \A c, d \in Resident : slotOf[c] = slotOf[d] => c = d
  PROVE  PlanKeeps
<1> DEFINE kept == {c \in Resident : Within(c, Hysteresis)}
           remembered == [c \in Chunks |-> IF Within(c, Memory) THEN probes[c] ELSE "unknown"]
           near == {c \in Streamable(kept) : Within(c, 0) /\ remembered[c] # "empty"}
           verdicts(probed) == [c \in Chunks |->
                        IF c \notin probed THEN remembered[c]
                        ELSE IF field[c].kind = "air" THEN "empty" ELSE "surface"]
           candidates(probed) == {c \in near : verdicts(probed)[c] = "surface"}
           gone(settled) == Resident \ settled
           came(settled) == settled \ Resident
           free(settled) == Slots \ {slotOf[c] : c \in Resident \cap settled}
           marked(settled) == inFlight \cup ReleasedInFlight(gone(settled))
           Applied(probed, settled, at, B) ==
             /\ slotOf' = [c \in Chunks |-> IF c \in came(settled) THEN at[c]
                                            ELSE IF c \in gone(settled) THEN None ELSE slotOf[c]]
             /\ state' = [s \in Slots |-> IF \E c \in B : slotOf'[c] = s THEN "building"
                                          ELSE IF s \in free(settled) THEN "needsBuild"
                                          ELSE state[s]]
             /\ probes' = verdicts(probed)
             /\ inFlight' = marked(settled) \cup B
             /\ builds' = B
             /\ space' = Released(gone(settled))
<1>1. PICK probed \in NearestOf({c \in near : remembered[c] = "unknown"}, MaxProbes) :
        \E settled \in Settled(kept, candidates(probed)) :
        \E at \in Injection(came(settled), free(settled)),
           B \in NearestOf(Owes(settled, marked(settled)), cap) :
          Applied(probed, settled, at, B)
  BY DEF Update
<1>2. PICK settled \in Settled(kept, candidates(probed)) :
        \E at \in Injection(came(settled), free(settled)),
           B \in NearestOf(Owes(settled, marked(settled)), cap) :
          Applied(probed, settled, at, B)
  BY <1>1
<1>3. PICK at \in Injection(came(settled), free(settled)),
           B \in NearestOf(Owes(settled, marked(settled)), cap) :
          Applied(probed, settled, at, B)
  BY <1>2
<1> DEFINE G == gone(settled)
           C == came(settled)
           Fr == free(settled)
<1>4. /\ settled \subseteq kept \cup candidates(probed)
      /\ kept \subseteq Resident /\ Resident \subseteq Chunks
      /\ candidates(probed) \subseteq Streamable(kept)
      /\ Streamable(kept) \subseteq Chunks \ inFlight
  BY DEF Settled, NearestOf, Resident, Streamable
<1>5. /\ C \subseteq Chunks \ inFlight /\ C \cap Resident = {}
      /\ G \subseteq Resident /\ settled \subseteq Chunks
  BY <1>4
<1>6. /\ B \subseteq settled \ marked(settled)
      /\ \A c \in B : StateOf(c) \in {"absent", "needsBuild"}
  BY DEF NearestOf, Owes
<1>7. /\ at \in [C -> Fr] /\ Fr \subseteq Slots
      /\ \A c, d \in C : at[c] = at[d] => c = d
  BY DEF Injection, IsInjective
<1>8. \A c \in Chunks : slotOf'[c] = IF c \in C THEN at[c] ELSE IF c \in G THEN None ELSE slotOf[c]
  BY <1>3
<1>9. \A s \in Slots : state'[s] = IF \E c \in B : slotOf'[c] = s THEN "building"
                                 ELSE IF s \in Fr THEN "needsBuild" ELSE state[s]
  BY <1>3
<1>10. \A s \in Slots : space'[s] = IF \E c \in G : slotOf[c] = s THEN None ELSE space[s]
  BY <1>3 DEF Released
<1>11. inFlight' = inFlight \cup ReleasedInFlight(G) \cup B /\ builds' = B
  BY <1>3
<1>12. /\ \A c \in Chunks : c \in Resident <=> slotOf[c] # None
       /\ \A c \in Chunks : c \in G <=> c \in Resident /\ c \notin settled
       /\ \A c \in Chunks : c \in C <=> c \notin Resident /\ c \in settled
       /\ \A s \in Slots : s \in Fr <=> ~ \E c \in Resident \cap settled : slotOf[c] = s
       /\ ReleasedInFlight(G) \subseteq Chunks
  BY <1>4, <1>5 DEF Resident, ReleasedInFlight
<1>13. /\ probes' \in [Chunks -> {"unknown", "surface", "empty"}]
       /\ \A c \in Chunks : probes'[c] = "empty" => probes[c] = "empty" \/ field[c].kind = "air"
  BY <1>3 DEF ColliderTypeOK
<1>14. /\ inFlight \subseteq Chunks /\ None \notin Slots
       /\ slotOf \in [Chunks -> Slots \cup {None}]
       /\ state \in [Slots -> {"needsBuild", "building", "ready"}]
       /\ space \in [Slots -> Bodies \cup {None}]
  BY ColliderAssumption DEF ColliderAssumption, ColliderTypeOK
<1>15. B \subseteq settled /\ B \cap inFlight = {}
  BY <1>6
<1>16. ASSUME NEW c \in B, slotOf[c] # None PROVE state[slotOf[c]] = "needsBuild"
  <2>1. c \in Chunks /\ c \in Resident /\ StateOf(c) \in {"absent", "needsBuild"}
    BY <1>5, <1>6, <1>12, <1>16
  <2> QED
    BY <1>14, <1>16, <2>1 DEF StateOf
<1> HIDE DEF G, C, Fr, kept, near, candidates, remembered, marked, verdicts, Applied, gone,
      came, free
<1>17. ASSUME NEW c \in Chunks, NEW d \in Chunks, slotOf'[c] # None, slotOf'[c] = slotOf'[d]
       PROVE  c = d
  <2>1. c \in settled /\ d \in settled
    BY <1>8, <1>12, <1>17
  <2>2. CASE c \in C /\ d \in C
    BY <1>7, <1>8, <1>17, <2>2
  <2>3. CASE c \notin C /\ d \notin C
    <3>1. /\ c \in Resident /\ slotOf'[c] = slotOf[c]
          /\ d \in Resident /\ slotOf'[d] = slotOf[d]
      BY <1>8, <1>12, <2>1, <2>3
    <3> QED
      BY <1>17, <3>1
  <2>4. ASSUME NEW x \in C, NEW y \in settled \ C PROVE slotOf'[x] # slotOf'[y]
    <3>1. x \in Chunks /\ y \in Chunks
      BY <1>5
    <3>2. slotOf'[x] \in Fr
      BY <1>7, <1>8, <3>1
    <3>3. y \in Resident /\ slotOf'[y] = slotOf[y]
      BY <1>8, <1>12, <2>4, <3>1
    <3> QED
      BY <1>7, <1>12, <3>2, <3>3
  <2> QED
    BY <1>17, <2>1, <2>2, <2>3, <2>4
<1>18. \A c \in Chunks : IF c \in settled THEN slotOf'[c] \in Slots ELSE slotOf'[c] = None
  BY <1>5, <1>7, <1>8, <1>12, <1>14
<1>19. \A b \in B : b \in Chunks /\ \A c \in Chunks : slotOf'[b] = slotOf'[c] => b = c
  <2>1. ASSUME NEW b \in B PROVE b \in Chunks /\ slotOf'[b] # None
    <3>1. b \in Chunks /\ b \in settled
      BY <1>5, <1>15
    <3> QED
      BY <1>14, <1>18, <3>1
  <2> QED
    BY <1>17, <2>1
<1>20. ASSUME NEW c \in Chunks
       PROVE  \/ slotOf'[c] = slotOf[c]
              \/ slotOf[c] # None /\ slotOf'[c] = None
              \/ /\ slotOf[c] = None /\ c \notin inFlight
                 /\ \A d \in Chunks : slotOf'[d] # None /\ slotOf'[d] = slotOf[d]
                                       => slotOf'[d] # slotOf'[c]
                 /\ state'[slotOf'[c]] = IF c \in builds' THEN "building" ELSE "needsBuild"
  <2>1. CASE c \in C
    <3>1. slotOf'[c] \in Fr /\ slotOf[c] = None /\ c \notin inFlight
      BY <1>5, <1>7, <1>8, <1>12, <2>1
    <3>2. ASSUME NEW b \in B, slotOf'[b] = slotOf'[c] PROVE b = c
      BY <1>19, <3>2
    <3>3. PICK s \in Slots : s = slotOf'[c]
      BY <1>7, <3>1
    <3>4. state'[s] = IF c \in B THEN "building" ELSE "needsBuild"
      BY <1>9, <3>1, <3>2, <3>3
    <3>5. \A d \in Chunks : slotOf'[d] # None /\ slotOf'[d] = slotOf[d] => slotOf'[d] # slotOf'[c]
      BY <1>17, <3>1, <2>1, <1>8, <1>12
    <3> QED
      BY <1>11, <3>1, <3>3, <3>4, <3>5
  <2>2. CASE c \notin C
    BY <1>8, <1>12, <2>2
  <2> QED
    BY <2>1, <2>2
<1>21. ASSUME NEW c \in Chunks, slotOf[c] # None, slotOf'[c] = slotOf[c]
       PROVE  IF c \in builds' THEN /\ state[slotOf[c]] = "needsBuild"
                                    /\ state'[slotOf[c]] = "building"
              ELSE state'[slotOf[c]] = state[slotOf[c]]
  <2>1. ASSUME NEW b \in B, slotOf'[b] = slotOf'[c] PROVE b = c
    BY <1>19, <2>1
  <2>2. PICK s \in Slots : s = slotOf[c]
    BY <1>14, <1>21
  <2>3. c \in Resident /\ c \in settled
    BY <1>12, <1>18, <1>21
  <2>4. s \notin Fr
    BY <1>12, <2>2, <2>3
  <2>5. state'[s] = IF c \in B THEN "building" ELSE state[s]
    <3>1. (\E b \in B : slotOf'[b] = s) <=> c \in B
      BY <1>21, <2>1, <2>2
    <3> QED
      BY <1>9, <2>4, <3>1
  <2> QED
    BY <1>11, <1>16, <1>21, <2>2, <2>5
<1>22. ASSUME NEW s \in Slots
       PROVE  space'[s] = IF \E c \in Chunks : slotOf[c] = s /\ slotOf'[c] # s
                          THEN None ELSE space[s]
  <2>1. \A c \in Chunks : slotOf[c] = s => (c \in G <=> slotOf'[c] # s)
    <3> SUFFICES ASSUME NEW c \in Chunks, slotOf[c] = s PROVE c \in G <=> slotOf'[c] # s
      OBVIOUS
    <3>1. c \in Resident /\ c \notin C
      BY <1>12, <1>14
    <3>2. c \in G => slotOf'[c] = None
      BY <1>8, <3>1
    <3>3. c \notin G => slotOf'[c] = slotOf[c]
      BY <1>8, <3>1
    <3> QED
      BY <1>14, <3>2, <3>3
  <2>2. (\E c \in G : slotOf[c] = s) <=> (\E c \in Chunks : slotOf[c] = s /\ slotOf'[c] # s)
    <3>1. G \subseteq Chunks
      BY <1>4, <1>5
    <3> QED
      BY <2>1, <3>1
  <2> QED
    BY <1>10, <2>2
<1>23. /\ slotOf' \in [Chunks -> Slots \cup {None}]
       /\ state' \in [Slots -> {"needsBuild", "building", "ready"}]
       /\ space' \in [Slots -> Bodies \cup {None}]
  <2>1. \A c \in Chunks : slotOf'[c] \in Slots \cup {None}
    BY <1>18
  <2>2. \A s \in Slots : state'[s] \in {"needsBuild", "building", "ready"}
    BY <1>9, <1>14
  <2>3. \A s \in Slots : space'[s] \in Bodies \cup {None}
    BY <1>10, <1>14
  <2>4. /\ slotOf' = [c \in Chunks |-> slotOf'[c]]
        /\ state' = [s \in Slots |-> state'[s]]
        /\ space' = [s \in Slots |-> space'[s]]
    BY <1>3 DEF Released, Applied
  <2> QED
    BY <2>1, <2>2, <2>3, <2>4
<1>24. /\ builds' \subseteq Chunks \ inFlight
       /\ inFlight \subseteq inFlight' /\ builds' \subseteq inFlight' /\ inFlight' \subseteq Chunks
       /\ \A c \in builds' : slotOf'[c] # None
  <2>1. \A b \in B : b \in Chunks /\ b \notin inFlight /\ slotOf'[b] # None
    <3> SUFFICES ASSUME NEW b \in B PROVE b \in Chunks /\ b \notin inFlight /\ slotOf'[b] # None
      OBVIOUS
    <3>1. b \in settled /\ b \in Chunks /\ b \notin inFlight
      BY <1>15, <1>19
    <3> QED
      BY <1>14, <1>18, <3>1
  <2> QED
    BY <1>12, <1>14, <1>11, <2>1
<1> QED
  BY <1>13, <1>17, <1>20, <1>21, <1>22, <1>23, <1>24 DEF PlanKeeps

(* The builds that come back, and the marks a result leaves.               *)
LEMMA ResultTypes ==
  ASSUME NEW S \in SUBSET Builds, NEW F
  PROVE  {Result(q, q \in F) : q \in S} \subseteq Finished
<1>1. \A q \in Builds : \A failed \in BOOLEAN : Result(q, failed) \in Finished
  BY DEF Result, Builds, Finished
<1>2. \A q : (q \in F) \in BOOLEAN
  OBVIOUS
<1> QED
  BY <1>1, <1>2

(* A batch the rebuilt service gives back is of results too.               *)
LEMMA FailedTypes ==
  ASSUME NEW S \in SUBSET Builds
  PROVE  {Result(q, TRUE) : q \in S} \subseteq Finished
<1>1. \A q \in Builds : Result(q, TRUE) \in Finished
  BY DEF Result, Builds, Finished
<1> QED
  BY <1>1

(* A result marks the slot of its chunk, and no other.                     *)
LEMMA NotedMarks ==
  ASSUME ColliderTypeOK, NEW c \in Chunks, NEW outcome \in {"needsBuild", "ready"}
  PROVE  /\ Noted(c, outcome) \in [Slots -> {"needsBuild", "building", "ready"}]
         /\ \A s \in Slots :
              Noted(c, outcome)[s] = IF StateOf(c) = "building" /\ s = slotOf[c]
                                     THEN outcome ELSE state[s]
BY DEF ColliderTypeOK, Noted

(* The types hold of the empty streamer.                                   *)
LEMMA ColliderTypeInit == Init => ColliderTypeOK
<1> SUFFICES ASSUME Init PROVE ColliderTypeOK
  OBVIOUS
<1>1. field \in [Chunks -> [version : Nat, kind : Kinds]]
  BY ColliderAssumption DEF Init, ColliderAssumption
<1>2. mesh \in MeshStates
  BY DEF Init, NoMesh, MeshStates
<1> QED
  BY <1>1, <1>2 DEF Init, ColliderTypeOK, NoSlot, NoMarks, NoVerdicts, NoBodies

(* Every step keeps the types: a plan does by PlanFacts.                   *)
LEMMA ColliderTypeStep ==
  ASSUME ColliderTypeOK, SpaceMatchesResidency, [Next]_vars
  PROVE  ColliderTypeOK'
<1> USE DEF ColliderTypeOK, residency
<1>1. ASSUME NEW c \in Chunks, NEW kind \in Kinds, Edit(c, kind) PROVE ColliderTypeOK'
  <2>1. [version |-> field[c].version + 1, kind |-> kind] \in [version : Nat, kind : Kinds]
    <3>1. field[c].version \in Nat
      BY <1>1
    <3>2. field[c].version + 1 \in Nat
      BY <3>1
    <3> QED
      BY <1>1, <3>2
  <2>2. field' \in [Chunks -> [version : Nat, kind : Kinds]]
    BY <1>1, <2>1 DEF Edit
  <2> QED
    BY <1>1, <2>2 DEF Edit
<1>2. ASSUME NEW v \in Views, Move(v) PROVE ColliderTypeOK'
  BY <1>2 DEF Move
<1>3. ASSUME NEW r \in inbox, Enqueue(r) PROVE ColliderTypeOK'
  <2>1. r.chunk \in Chunks
    BY DEF Finished
  <2>2. CASE r.chunk \in Resident /\ ~r.failed
    <3>1. staged' \in Replacements
      <4>1. /\ slotOf[r.chunk] \in Slots /\ r.version \in Nat /\ r.kind \in Kinds
            /\ r.chunk \in Chunks
        BY <2>2 DEF Resident, Finished
      <4> QED
        <5>1. staged' = [chunk |-> r.chunk, slot |-> slotOf[r.chunk], version |-> r.version,
                         kind |-> r.kind, next |-> 0]
          BY <1>3, <2>2 DEF Enqueue
        <5> QED
          BY <4>1, <5>1 DEF Replacements
    <3> QED
      BY <1>3, <2>2, <3>1 DEF Enqueue, Staging
  <2>3. CASE ~(r.chunk \in Resident /\ ~r.failed)
    <3>1. state' = state \/ state' = Noted(r.chunk, "needsBuild")
      BY <1>3, <2>3 DEF Enqueue, Staging, NoteFailed, NoteDiscarded
    <3>2. state' \in [Slots -> {"needsBuild", "building", "ready"}]
      <4>1. Noted(r.chunk, "needsBuild") \in [Slots -> {"needsBuild", "building", "ready"}]
        BY <2>1, NotedMarks
      <4> QED
        BY <3>1, <4>1
    <3> QED
      BY <1>3, <2>3, <3>2 DEF Enqueue, Staging, NoteFailed, NoteDiscarded
  <2> QED
    BY <2>2, <2>3
<1>4. ASSUME NEW F \in SUBSET mesh.running, FinishBatch(F) PROVE ColliderTypeOK'
  <2>1. {Result(q, q \in F) : q \in mesh.running} \subseteq Finished
    <3>1. mesh.running \in SUBSET Builds
      BY DEF MeshStates
    <3> QED
      BY <3>1, ResultTypes
  <2>2. mesh' \in MeshStates
    BY <1>4, <2>1 DEF FinishBatch, ServiceStep, MeshStates
  <2> QED
    BY <1>4, <2>2 DEF FinishBatch, ServiceStep
<1>5. ASSUME NEW ok \in BOOLEAN, Rebuild(ok) PROVE ColliderTypeOK'
  <2>1. {Result(q, TRUE) : q \in mesh.queued} \subseteq Finished
    BY FailedTypes DEF MeshStates
  <2>2. mesh' \in MeshStates
    BY <1>5, <2>1 DEF Rebuild, ServiceStep, MeshStates
  <2> QED
    BY <1>5, <2>2 DEF Rebuild, ServiceStep
<1>6. CASE BeginFrame
  <2>1. mesh' \in MeshStates /\ inbox' \subseteq Finished
    BY <1>6 DEF BeginFrame, MeshStates
  <2>2. /\ state' \in [Slots -> {"needsBuild", "building", "ready"}]
        /\ probes' \in [Chunks -> {"unknown", "surface", "empty"}]
    BY <1>6 DEF BeginFrame, DirtyState, DirtyProbes
  <2> QED
    BY <1>6, <2>1, <2>2 DEF BeginFrame
<1>7. CASE StageStale
  BY <1>7 DEF StageStale, Staging, NoteDiscarded
<1>8. CASE StageOctant
  <2>1. staged' \in Replacements
    <3>1. staged \in Replacements /\ staged' = [staged EXCEPT !.next = staged.next + 1]
      BY <1>8 DEF StageOctant
    <3> QED
      <4>1. staged.next + 1 \in Nat
        BY <3>1 DEF Replacements
      <4> QED
        BY <3>1, <4>1 DEF Replacements
  <2> QED
    BY <1>8, <2>1 DEF StageOctant, Staging
<1>9. CASE StageFails
  <2>1. staged.chunk \in Chunks
    BY <1>9 DEF StageFails, Staging, Staged, Replacements
  <2>2. state' = Noted(staged.chunk, "needsBuild")
    BY <1>9 DEF StageFails, Staging, NoteFailed
  <2>3. state' \in [Slots -> {"needsBuild", "building", "ready"}]
    BY <2>1, <2>2, NotedMarks
  <2> QED
    BY <1>9, <2>3 DEF StageFails, Staging, NoteFailed
<1>10. CASE CommitBodies
  <2>1. staged.chunk \in Chunks
    BY <1>10 DEF CommitBodies, Staging, Staged, Replacements
  <2>2. state' = Noted(staged.chunk, "ready")
    BY <1>10 DEF CommitBodies, Staging, Staged, NoteBuilt
  <2>3. state' \in [Slots -> {"needsBuild", "building", "ready"}]
    BY <2>1, <2>2, NotedMarks
  <2>4. space' \in [Slots -> Bodies \cup {None}]
    BY <1>10 DEF CommitBodies, Staging, Staged, Replacements, Bodies
  <2> QED
    BY <1>10, <2>3, <2>4 DEF CommitBodies, Staging, Staged, NoteBuilt
<1>11. CASE CommitEmpty
  <2>1. staged.chunk \in Chunks
    BY <1>11 DEF CommitEmpty, Staging, Staged, Replacements
  <2>2. /\ state' \in [Slots -> {"needsBuild", "building", "ready"}]
        /\ slotOf' \in [Chunks -> Slots \cup {None}]
        /\ probes' \in [Chunks -> {"unknown", "surface", "empty"}]
    BY <1>11, <2>1 DEF CommitEmpty, Staging, Staged, NoteEmpty
  <2>3. space' \in [Slots -> Bodies \cup {None}]
    BY <1>11 DEF CommitEmpty, Staging, Staged
  <2> QED
    BY <1>11, <2>2, <2>3 DEF CommitEmpty, Staging, Staged, NoteEmpty
<1>12. CASE StageStops
  BY <1>12 DEF StageStops
<1>13. CASE Plan
  <2>1. PlanKeeps
    BY <1>13, PlanFacts DEF Plan, SpaceMatchesResidency
  <2> QED
    BY <1>13, <2>1 DEF Plan, PlanKeeps
<1>14. CASE PlanHeld
  BY <1>14 DEF PlanHeld
<1>15. CASE Submit
  <2>1. Requests \subseteq Builds
    <3>1. \A c \in builds :
            [chunk |-> c, version |-> field[c].version, kind |-> field[c].kind] \in Builds
      BY DEF Builds
    <3> QED
      BY <3>1 DEF Requests
  <2>2. mesh' \in MeshStates
    BY <1>15, <2>1 DEF Submit, MeshStates
  <2>3. state' \in [Slots -> {"needsBuild", "building", "ready"}] /\ inFlight' \subseteq Chunks
    BY <1>15 DEF Submit, Refused
  <2> QED
    BY <1>15, <2>2, <2>3 DEF Submit
<1>16. CASE TakeBatch
  <2>1. mesh' \in MeshStates
    BY <1>16 DEF TakeBatch, ServiceStep, MeshStates
  <2> QED
    BY <1>16, <2>1 DEF TakeBatch, ServiceStep
<1>17. CASE LodClearsBusy
  <2>1. mesh' \in MeshStates
    BY <1>17 DEF LodClearsBusy, ServiceStep, MeshStates
  <2> QED
    BY <1>17, <2>1 DEF LodClearsBusy, ServiceStep
<1>18. CASE Spoil
  <2>1. mesh' \in MeshStates
    BY <1>18 DEF Spoil, ServiceStep, MeshStates
  <2> QED
    BY <1>18, <2>1 DEF Spoil, ServiceStep
<1>19. CASE Restart
  <2>1. mesh' \in MeshStates
    BY <1>19 DEF Restart, NoMesh, MeshStates
  <2> QED
    BY <1>19, <2>1 DEF Restart, NoSlot, NoMarks, NoVerdicts, NoBodies
<1>20. CASE UNCHANGED vars
  BY <1>20 DEF vars
<1> QED
  BY <1>1, <1>2, <1>3, <1>4, <1>5, <1>6, <1>7, <1>8, <1>9, <1>10, <1>11, <1>12, <1>13, <1>14,
    <1>15, <1>16, <1>17, <1>18, <1>19, <1>20 DEF Next, FrameStep, ServiceNext, WorldNext

(* No step starts a second build of a chunk.                               *)
LEMMA OneBuildStep ==
  ASSUME ColliderInv, [Next]_vars
  PROVE  OneBuild'
<1> USE DEF ColliderInv, ColliderTypeOK, MeshStates, residency, OneBuild, InPlace, Places
<1>1. ASSUME NEW c \in Chunks, NEW kind \in Kinds, Edit(c, kind) PROVE OneBuild'
  BY <1>1 DEF Edit
<1>2. ASSUME NEW v \in Views, Move(v) PROVE OneBuild'
  BY <1>2 DEF Move
<1>3. ASSUME NEW r \in inbox, Enqueue(r) PROVE OneBuild'
  BY <1>3 DEF Enqueue, NoteFailed, NoteDiscarded, Noted
<1>4. ASSUME NEW F \in SUBSET mesh.running, FinishBatch(F) PROVE OneBuild'
  BY <1>4 DEF FinishBatch, ServiceStep, Result
<1>5. ASSUME NEW ok \in BOOLEAN, Rebuild(ok) PROVE OneBuild'
  <2>1. /\ mesh'.queued = {} /\ mesh'.running = mesh.running
        /\ mesh'.results = mesh.results \cup {Result(q, TRUE) : q \in mesh.queued}
        /\ inbox' = inbox /\ staged' = staged /\ inFlight' = inFlight /\ builds' = builds
    BY <1>5 DEF Rebuild, ServiceStep
  <2>2. \A a \in mesh'.results : a \in mesh.results
          \/ \E q \in mesh.queued : a = Result(q, TRUE) /\ a.chunk = q.chunk
    BY <2>1 DEF Result
  <2>3. /\ \A p \in Places \ {"queued", "results"} : InPlace(p)' = InPlace(p)
        /\ InPlace("queued")' = {} /\ InPlace("queued") = mesh.queued
        /\ InPlace("results")' = mesh'.results /\ InPlace("results") = mesh.results
    BY <2>1
  <2> HIDE DEF InPlace, ColliderTypeOK, ColliderInv, OneBuild, MeshStates
  <2>4. ASSUME NEW p \in Places, NEW a \in InPlace(p)'
        PROVE  \/ a \in InPlace(p)
               \/ p = "results" /\ \E q \in InPlace("queued") :
                                     a = Result(q, TRUE) /\ a.chunk = q.chunk
    BY <2>2, <2>3, <2>4
  <2>5. ASSUME NEW p \in Places, NEW a \in InPlace(p)'
        PROVE  \E x \in Places : \E o \in InPlace(x) :
                 o.chunk = a.chunk /\ IF x = "queued" THEN p = "results" /\ a = Result(o, TRUE)
                                      ELSE p = x /\ a = o
    BY <2>3, <2>4, <2>5
  <2>6. ASSUME NEW p \in Places, NEW q \in Places, NEW a \in InPlace(p)', NEW b \in InPlace(q)',
               a.chunk = b.chunk
        PROVE  p = q /\ a = b
    <3>1. PICK x \in Places : \E o \in InPlace(x) :
                 o.chunk = a.chunk /\ IF x = "queued" THEN p = "results" /\ a = Result(o, TRUE)
                                      ELSE p = x /\ a = o
      BY <2>5
    <3>2. PICK y \in Places : \E u \in InPlace(y) :
                 u.chunk = b.chunk /\ IF y = "queued" THEN q = "results" /\ b = Result(u, TRUE)
                                      ELSE q = y /\ b = u
      BY <2>5
    <3>3. x = y
      BY <2>6, <3>1, <3>2 DEF ColliderInv, OneBuild
    <3> QED
      <4>1. PICK o \in InPlace(x) :
              o.chunk = a.chunk /\ IF x = "queued" THEN p = "results" /\ a = Result(o, TRUE)
                                   ELSE p = x /\ a = o
        BY <3>1
      <4>2. PICK u \in InPlace(x) :
              u.chunk = b.chunk /\ IF x = "queued" THEN q = "results" /\ b = Result(u, TRUE)
                                   ELSE q = x /\ b = u
        BY <3>2, <3>3
      <4>3. o = u
        BY <2>6, <4>1, <4>2 DEF ColliderInv, OneBuild
      <4> QED
        BY <4>1, <4>2, <4>3
  <2>7. \A p \in Places : \A a \in InPlace(p)' : a.chunk \in inFlight' \ builds'
    <3> SUFFICES ASSUME NEW p \in Places, NEW a \in InPlace(p)'
                 PROVE  a.chunk \in inFlight' \ builds'
      OBVIOUS
    <3>1. PICK x \in Places : \E o \in InPlace(x) : o.chunk = a.chunk
      BY <2>5
    <3> QED
      BY <2>1, <3>1 DEF ColliderInv, OneBuild
  <2> QED
    BY <2>1, <2>6, <2>7 DEF ColliderInv, OneBuild
<1>6. CASE BeginFrame
  BY <1>6 DEF BeginFrame, DirtyState, DirtyProbes
<1>7. CASE StageStale
  BY <1>7 DEF StageStale, NoteDiscarded
<1>8. CASE StageOctant
  <2>1. /\ staged # None /\ staged'.chunk = staged.chunk
        /\ inbox' = inbox /\ mesh' = mesh /\ inFlight' = inFlight /\ builds' = builds
    BY <1>8 DEF StageOctant, Replacements
  <2>2. /\ \A p \in Places \ {"staged"} : InPlace(p)' = InPlace(p)
        /\ \A a \in InPlace("staged")' : a = staged'
    BY <2>1
  <2>3. ASSUME NEW p \in Places, NEW q \in Places, NEW a \in InPlace(p)', NEW b \in InPlace(q)',
               a.chunk = b.chunk
        PROVE  p = q /\ a = b
    BY <2>1, <2>2, <2>3
  <2>4. \A p \in Places : \A a \in InPlace(p)' : a.chunk \in inFlight' \ builds'
    BY <2>1, <2>2
  <2> QED
    BY <2>1, <2>3, <2>4
<1>9. CASE StageFails
  BY <1>9 DEF StageFails, NoteFailed, Noted, Stale
<1>10. CASE CommitBodies
  BY <1>10 DEF CommitBodies, Staged, NoteBuilt, Noted, Stale
<1>11. CASE CommitEmpty
  BY <1>11 DEF CommitEmpty, Staged, NoteEmpty, Stale
<1>12. CASE StageStops
  BY <1>12 DEF StageStops
<1>13. CASE Plan
  <2>1. PlanKeeps
    BY <1>13, PlanFacts DEF Plan, SpaceMatchesResidency
  <2>2. /\ builds' \cap inFlight = {} /\ inFlight \subseteq inFlight'
        /\ builds' \subseteq inFlight'
        /\ builds = {}
    BY <1>13, <2>1 DEF Plan, PlanKeeps
  <2>3. \A p \in Places : InPlace(p)' = InPlace(p)
    BY <1>13 DEF Plan
  <2> HIDE DEF InPlace
  <2> QED
    BY <2>2, <2>3
<1>14. CASE PlanHeld
  BY <1>14 DEF PlanHeld
<1>15. CASE Submit
  <2>1. builds' = {} /\ inbox' = inbox /\ staged' = staged
    BY <1>15 DEF Submit
  <2>2. CASE mesh.valid /\ mesh.queued = {} /\ ~mesh.busy
    <3>1. /\ mesh'.queued = Requests /\ mesh'.running = mesh.running
          /\ mesh'.results = mesh.results /\ inFlight' = inFlight
      <4> HIDE DEF OneBuild, InPlace
      <4>1. /\ mesh' = [mesh EXCEPT !.queued = Requests, !.busy = TRUE]
            /\ UNCHANGED <<state, inFlight>>
        BY <1>15, <2>2 DEF Submit
      <4> QED
        BY <4>1
    <3>2. \A a \in Requests : a.chunk \in builds
      BY DEF Requests
    <3>3. \A a, b \in Requests : a.chunk = b.chunk => a = b
      BY DEF Requests
    <3>4. ASSUME NEW p \in Places, NEW q \in Places,
                 NEW a \in InPlace(p)', NEW b \in InPlace(q)', a.chunk = b.chunk
          PROVE  p = q /\ a = b
      BY <2>1, <2>2, <3>1, <3>2, <3>3, <3>4
    <3>5. \A p \in Places : \A a \in InPlace(p)' : a.chunk \in inFlight' \ builds'
      BY <2>1, <2>2, <3>1, <3>2
    <3> QED
      BY <2>1, <3>4, <3>5
  <2>3. CASE ~(mesh.valid /\ mesh.queued = {} /\ ~mesh.busy)
    <3>1. mesh' = mesh /\ inFlight' = inFlight \ builds
      BY <1>15, <2>3 DEF Submit, Refused
    <3>2. \A p \in Places : InPlace(p)' = InPlace(p)
      BY <2>1, <3>1
    <3> HIDE DEF InPlace
    <3> QED
      BY <2>1, <3>1, <3>2
  <2> QED
    BY <2>2, <2>3
<1>16. CASE TakeBatch
  BY <1>16 DEF TakeBatch, ServiceStep
<1>17. CASE LodClearsBusy
  BY <1>17 DEF LodClearsBusy, ServiceStep
<1>18. CASE Spoil
  BY <1>18 DEF Spoil, ServiceStep
<1>19. CASE Restart
  BY <1>19 DEF Restart, NoSlot, NoMarks, NoVerdicts, NoBodies, NoMesh
<1>20. CASE UNCHANGED vars
  BY <1>20 DEF vars
<1> QED
  BY <1>1, <1>2, <1>3, <1>4, <1>5, <1>6, <1>7, <1>8, <1>9, <1>10, <1>11, <1>12, <1>13, <1>14,
    <1>15, <1>16, <1>17, <1>18, <1>19, <1>20 DEF Next, FrameStep, ServiceNext, WorldNext

(* The bodies stay those of the owner of their slot.                       *)
LEMMA MatchesStep ==
  ASSUME ColliderInv, [Next]_vars
  PROVE  SpaceMatchesResidency'
<1> USE ColliderAssumption DEF ColliderInv, ColliderTypeOK, residency, SpaceMatchesResidency,
      Resident,
     ColliderAssumption, Bodies
<1>1. ASSUME NEW c \in Chunks, NEW kind \in Kinds, Edit(c, kind) PROVE SpaceMatchesResidency'
  BY <1>1 DEF Edit
<1>2. ASSUME NEW v \in Views, Move(v) PROVE SpaceMatchesResidency'
  BY <1>2 DEF Move
<1>3. ASSUME NEW r \in inbox, Enqueue(r) PROVE SpaceMatchesResidency'
  BY <1>3 DEF Enqueue, NoteFailed, NoteDiscarded, Noted
<1>4. ASSUME NEW F \in SUBSET mesh.running, FinishBatch(F) PROVE SpaceMatchesResidency'
  BY <1>4 DEF FinishBatch, ServiceStep, Result
<1>5. ASSUME NEW ok \in BOOLEAN, Rebuild(ok) PROVE SpaceMatchesResidency'
  BY <1>5 DEF Rebuild, ServiceStep, Result
<1>6. CASE BeginFrame
  BY <1>6 DEF BeginFrame, DirtyState, DirtyProbes
<1>7. CASE StageStale
  BY <1>7 DEF StageStale, NoteDiscarded
<1>8. CASE StageOctant
  BY <1>8 DEF StageOctant, Staging
<1>9. CASE StageFails
  BY <1>9 DEF StageFails, NoteFailed, Noted, Stale
<1>10. CASE CommitBodies
  BY <1>10 DEF CommitBodies, Staged, NoteBuilt, Noted, Stale
<1>11. CASE CommitEmpty
  BY <1>11 DEF CommitEmpty, Staged, NoteEmpty, Stale
<1>12. CASE StageStops
  BY <1>12 DEF StageStops
<1>13. CASE Plan
  <2>1. PlanKeeps
    BY <1>13, PlanFacts DEF Plan
  <2>2. \A c, d \in Chunks : slotOf'[c] # None /\ slotOf'[c] = slotOf'[d] => c = d
    BY <2>1 DEF PlanKeeps
  <2>3. ASSUME NEW s \in Slots, space'[s] # None
        PROVE  slotOf'[space'[s].chunk] = s
    <3>1. space'[s] = IF \E c \in Chunks : slotOf[c] = s /\ slotOf'[c] # s THEN None ELSE space[s]
      BY <2>1 DEF PlanKeeps
    <3>2. space'[s] = space[s] /\ space[s].chunk \in Chunks
      BY <2>3, <3>1
    <3>3. slotOf[space[s].chunk] = s
      BY <2>3, <3>2
    <3> QED
      BY <2>3, <3>1, <3>2, <3>3
  <2> QED
    BY <2>2, <2>3
<1>14. CASE PlanHeld
  BY <1>14 DEF PlanHeld
<1>15. CASE Submit
  BY <1>15 DEF Submit, Requests, Refused
<1>16. CASE TakeBatch
  BY <1>16 DEF TakeBatch, ServiceStep
<1>17. CASE LodClearsBusy
  BY <1>17 DEF LodClearsBusy, ServiceStep
<1>18. CASE Spoil
  BY <1>18 DEF Spoil, ServiceStep
<1>19. CASE Restart
  BY <1>19 DEF Restart, NoSlot, NoMarks, NoVerdicts, NoBodies, NoMesh
<1>20. CASE UNCHANGED vars
  BY <1>20 DEF vars
<1> QED
  BY <1>1, <1>2, <1>3, <1>4, <1>5, <1>6, <1>7, <1>8, <1>9, <1>10, <1>11, <1>12, <1>13, <1>14,
    <1>15, <1>16, <1>17, <1>18, <1>19, <1>20 DEF Next, FrameStep, ServiceNext, WorldNext

(* What counts as settled stays true of the field.                         *)
LEMMA VerdictsStep ==
  ASSUME ColliderInv, [Next]_vars
  PROVE  VerdictsAreTrue'
<1> USE DEF ColliderInv, ColliderTypeOK, residency, SpaceMatchesResidency, Resident, StateOf,
      VerdictsAreTrue
<1>1. ASSUME NEW c \in Chunks, NEW kind \in Kinds, Edit(c, kind) PROVE VerdictsAreTrue'
  BY <1>1 DEF Edit
<1>2. ASSUME NEW v \in Views, Move(v) PROVE VerdictsAreTrue'
  BY <1>2 DEF Move
<1>3. ASSUME NEW r \in inbox, Enqueue(r) PROVE VerdictsAreTrue'
  BY <1>3 DEF Enqueue, NoteFailed, NoteDiscarded, Noted
<1>4. ASSUME NEW F \in SUBSET mesh.running, FinishBatch(F) PROVE VerdictsAreTrue'
  BY <1>4 DEF FinishBatch, ServiceStep, Result
<1>5. ASSUME NEW ok \in BOOLEAN, Rebuild(ok) PROVE VerdictsAreTrue'
  BY <1>5 DEF Rebuild, ServiceStep, Result
<1>6. CASE BeginFrame
  BY <1>6 DEF BeginFrame, DirtyState, DirtyProbes
<1>7. CASE StageStale
  BY <1>7 DEF StageStale, NoteDiscarded
<1>8. CASE StageOctant
  BY <1>8 DEF StageOctant, Staging
<1>9. CASE StageFails
  BY <1>9 DEF StageFails, NoteFailed, Noted, Stale
<1>10. CASE CommitBodies
  <2>1. /\ staged # None /\ staged.chunk \in Chunks /\ staged.slot = slotOf[staged.chunk]
        /\ staged.version \in Nat /\ staged.slot \in Slots
        /\ StateOf(staged.chunk) = "building"
    BY <1>10 DEF CommitBodies, Staged, Stale, Replacements
  <2>2. /\ staged.version <= field[staged.chunk].version
        /\ staged.chunk \notin dirty => /\ staged.version = field[staged.chunk].version
                                       /\ staged.kind = field[staged.chunk].kind
        /\ staged.chunk \in dirty => staged.version < field[staged.chunk].version
    <3>1. staged \in InPlace("staged") /\ "staged" \in Places
      BY <2>1 DEF InPlace, Places
    <3> QED
      BY <2>1, <3>1 DEF MeshesAge
  <2>3. state' = Noted(staged.chunk, "ready")
    BY <1>10 DEF CommitBodies, NoteBuilt
  <2>4. \A s \in Slots : state'[s] = IF s = staged.slot THEN "ready" ELSE state[s]
    BY <2>1, <2>3, NotedMarks
  <2>5. \A s \in Slots : space'[s] = IF s = staged.slot
                                     THEN [chunk |-> staged.chunk, version |-> staged.version]
                                     ELSE space[s]
    BY <1>10 DEF CommitBodies
  <2>6. field' = field /\ dirty' = dirty /\ slotOf' = slotOf /\ probes' = probes
    BY <1>10 DEF CommitBodies, NoteBuilt
  <2>7. ASSUME NEW x \in Chunks \ dirty, StateOf(x)' = "ready"
        PROVE  space'[slotOf'[x]] = [chunk |-> x, version |-> field'[x].version]
    <3>1. slotOf[x] \in Slots /\ x \in Resident /\ staged.chunk \in Resident
      BY <2>1, <2>6, <2>7
    <3>2. CASE x = staged.chunk
      BY <2>1, <2>2, <2>5, <2>6, <3>2
    <3>3. CASE x # staged.chunk
      <4>1. slotOf[x] # staged.slot
        BY <2>1, <3>1, <3>3
      <4>2. StateOf(x) = "ready"
        BY <2>4, <2>6, <2>7, <3>1, <4>1
      <4> QED
        BY <2>5, <2>6, <3>1, <4>1, <4>2
    <3> QED
      BY <3>2, <3>3
  <2> QED
    BY <2>6, <2>7
<1>11. CASE CommitEmpty
  <2>1. /\ staged # None /\ staged.chunk \in Chunks /\ staged.slot = slotOf[staged.chunk]
        /\ staged.version \in Nat /\ staged.slot \in Slots
        /\ StateOf(staged.chunk) = "building"
    BY <1>11 DEF CommitEmpty, Staged, Stale, Replacements
  <2>2. /\ staged.version <= field[staged.chunk].version
        /\ staged.chunk \notin dirty => /\ staged.version = field[staged.chunk].version
                                       /\ staged.kind = field[staged.chunk].kind
        /\ staged.chunk \in dirty => staged.version < field[staged.chunk].version
    <3>1. staged \in InPlace("staged") /\ "staged" \in Places
      BY <2>1 DEF InPlace, Places
    <3> QED
      BY <2>1, <3>1 DEF MeshesAge
  <2>3. /\ state' = [state EXCEPT ![staged.slot] = "needsBuild"]
        /\ slotOf' = [slotOf EXCEPT ![staged.chunk] = None]
        /\ probes' = [probes EXCEPT ![staged.chunk] = "empty"]
        /\ space' = [space EXCEPT ![staged.slot] = None]
        /\ field' = field /\ dirty' = dirty /\ staged.kind # "ground"
    BY <1>11, <2>1 DEF CommitEmpty, NoteEmpty, Staged
  <2>4. ASSUME NEW x \in Chunks \ dirty, StateOf(x)' = "ready"
        PROVE  space'[slotOf'[x]] = [chunk |-> x, version |-> field'[x].version]
    <3>1. x # staged.chunk /\ slotOf'[x] = slotOf[x] /\ slotOf[x] \in Slots
      BY <2>1, <2>3, <2>4
    <3>2. slotOf[x] # staged.slot
      BY <2>1, <2>4, <3>1
    <3>3. StateOf(x) = "ready"
      BY <2>1, <2>3, <2>4, <3>1, <3>2
    <3> QED
      BY <2>1, <2>3, <3>1, <3>2, <3>3
  <2>5. ASSUME NEW x \in Chunks \ dirty, probes'[x] = "empty"
        PROVE  field'[x].kind # "ground"
    BY <2>1, <2>2, <2>3, <2>5
  <2> QED
    BY <2>3, <2>4, <2>5
<1>12. CASE StageStops
  BY <1>12 DEF StageStops
<1>13. CASE Plan
  <2>1. PlanKeeps
    BY <1>13, PlanFacts DEF Plan
  <2>2. field' = field /\ dirty' = dirty /\ inbox' = inbox /\ staged' = staged /\ mesh' = mesh
    BY <1>13 DEF Plan
  <2>3. ASSUME NEW x \in Chunks \ dirty, StateOf(x)' = "ready"
        PROVE  space'[slotOf'[x]] = [chunk |-> x, version |-> field'[x].version]
    <3>1. x \in Chunks /\ slotOf'[x] # None /\ state'[slotOf'[x]] = "ready"
      BY <2>3
    <3>2. slotOf[x] # None /\ slotOf'[x] = slotOf[x]
      BY <2>1, <3>1 DEF PlanKeeps
    <3>3. state[slotOf[x]] = "ready"
      BY <2>1, <3>1, <3>2 DEF PlanKeeps
    <3>4. PICK s \in Slots : s = slotOf[x]
      BY <3>2
    <3>5. space'[s] = space[s]
      <4>1. \A c \in Chunks : slotOf[c] = s => c = x
        BY <3>2, <3>4
      <4> QED
        BY <2>1, <3>2, <3>4, <4>1 DEF PlanKeeps
    <3> QED
      BY <2>2, <3>1, <3>2, <3>3, <3>4, <3>5
  <2>4. \A c \in Chunks : probes'[c] = "empty" => probes[c] = "empty" \/ field[c].kind = "air"
    BY <2>1 DEF PlanKeeps
  <2> QED
    BY <2>2, <2>3, <2>4
<1>14. CASE PlanHeld
  BY <1>14 DEF PlanHeld
<1>15. CASE Submit
  BY <1>15 DEF Submit, Requests, Refused
<1>16. CASE TakeBatch
  BY <1>16 DEF TakeBatch, ServiceStep
<1>17. CASE LodClearsBusy
  BY <1>17 DEF LodClearsBusy, ServiceStep
<1>18. CASE Spoil
  BY <1>18 DEF Spoil, ServiceStep
<1>19. CASE Restart
  BY <1>19 DEF Restart, NoSlot, NoMarks, NoVerdicts, NoBodies, NoMesh
<1>20. CASE UNCHANGED vars
  BY <1>20 DEF vars
<1> QED
  BY <1>1, <1>2, <1>3, <1>4, <1>5, <1>6, <1>7, <1>8, <1>9, <1>10, <1>11, <1>12, <1>13, <1>14,
    <1>15, <1>16, <1>17, <1>18, <1>19, <1>20 DEF Next, FrameStep, ServiceNext, WorldNext

(* Bodies stay older than the field their chunk owes a mesh of.            *)
LEMMA BodiesAgeStep ==
  ASSUME ColliderInv, [Next]_vars
  PROVE  BodiesAge'
<1> USE DEF ColliderInv, ColliderTypeOK, residency, SpaceMatchesResidency, Resident, StateOf,
      BodiesAge
<1>1. ASSUME NEW c \in Chunks, NEW kind \in Kinds, Edit(c, kind) PROVE BodiesAge'
  <2>1. /\ field' = [field EXCEPT ![c] = [version |-> field[c].version + 1, kind |-> kind]]
        /\ dirty' = dirty \cup {c} /\ space' = space /\ state' = state
    BY <1>1 DEF Edit
  <2>2. \A d \in Chunks : field[d].version \in Nat
    OBVIOUS
  <2>3. /\ field'[c].version = field[c].version + 1
        /\ \A d \in Chunks \ {c} : field'[d] = field[d]
    BY <1>1, <2>1
  <2>4. ASSUME NEW s \in Slots, space[s] # None
        PROVE  space[s].chunk \in Chunks /\ space[s].version \in Nat
    BY <2>4 DEF Bodies
  <2>5. ASSUME NEW s \in Slots, space[s] # None
        PROVE  /\ space[s].version <= field'[space[s].chunk].version
               /\ space[s].chunk \in dirty \cup {c} \/ state[s] # "ready"
                    => space[s].version < field'[space[s].chunk].version
    <3>1. space[s].chunk \in Chunks /\ space[s].version \in Nat
      BY <2>4, <2>5
    <3>2. CASE space[s].chunk = c
      <4>1. space[s].version <= field[c].version
        BY <2>5, <3>2
      <4> QED
        BY <2>2, <2>3, <3>1, <3>2, <4>1
    <3>3. CASE space[s].chunk # c
      BY <2>3, <2>5, <3>1, <3>3
    <3> QED
      BY <3>2, <3>3
  <2> QED
    BY <2>1, <2>5
<1>2. ASSUME NEW v \in Views, Move(v) PROVE BodiesAge'
  BY <1>2 DEF Move
<1>3. ASSUME NEW r \in inbox, Enqueue(r) PROVE BodiesAge'
  BY <1>3 DEF Enqueue, NoteFailed, NoteDiscarded, Noted
<1>4. ASSUME NEW F \in SUBSET mesh.running, FinishBatch(F) PROVE BodiesAge'
  BY <1>4 DEF FinishBatch, ServiceStep, Result
<1>5. ASSUME NEW ok \in BOOLEAN, Rebuild(ok) PROVE BodiesAge'
  BY <1>5 DEF Rebuild, ServiceStep, Result
<1>6. CASE BeginFrame
  <2>1. /\ field' = field /\ dirty' = {} /\ space' = space
        /\ \A s \in Slots : state'[s] = IF \E c \in dirty : slotOf[c] = s THEN "needsBuild"
                                         ELSE state[s]
    BY <1>6 DEF BeginFrame, DirtyState
  <2>2. ASSUME NEW s \in Slots, space[s] # None, state'[s] # "ready"
        PROVE  space[s].chunk \in dirty \/ state[s] # "ready"
    <3>1. slotOf[space[s].chunk] = s /\ space[s].chunk \in Chunks
      BY <2>2 DEF Bodies
    <3>2. \A c \in dirty : slotOf[c] = s => c = space[s].chunk
      BY <3>1, ColliderAssumption DEF ColliderAssumption
    <3> QED
      BY <2>1, <2>2, <3>2
  <2> QED
    BY <2>1, <2>2
<1>7. CASE StageStale
  BY <1>7 DEF StageStale, NoteDiscarded
<1>8. CASE StageOctant
  BY <1>8 DEF StageOctant, Staging
<1>9. CASE StageFails
  BY <1>9 DEF StageFails, NoteFailed, Noted, Stale
<1>10. CASE CommitBodies
  <2>1. /\ staged # None /\ staged.chunk \in Chunks /\ staged.slot = slotOf[staged.chunk]
        /\ staged.version \in Nat /\ staged.slot \in Slots
        /\ StateOf(staged.chunk) = "building"
    BY <1>10 DEF CommitBodies, Staged, Stale, Replacements
  <2>2. /\ staged.version <= field[staged.chunk].version
        /\ staged.chunk \notin dirty => /\ staged.version = field[staged.chunk].version
                                       /\ staged.kind = field[staged.chunk].kind
        /\ staged.chunk \in dirty => staged.version < field[staged.chunk].version
    <3>1. staged \in InPlace("staged") /\ "staged" \in Places
      BY <2>1 DEF InPlace, Places
    <3> QED
      BY <2>1, <3>1 DEF MeshesAge
  <2>3. state' = Noted(staged.chunk, "ready")
    BY <1>10 DEF CommitBodies, NoteBuilt
  <2>4. \A s \in Slots : state'[s] = IF s = staged.slot THEN "ready" ELSE state[s]
    BY <2>1, <2>3, NotedMarks
  <2>5. \A s \in Slots : space'[s] = IF s = staged.slot
                                     THEN [chunk |-> staged.chunk, version |-> staged.version]
                                     ELSE space[s]
    BY <1>10 DEF CommitBodies
  <2>6. field' = field /\ dirty' = dirty /\ slotOf' = slotOf /\ probes' = probes
    BY <1>10 DEF CommitBodies, NoteBuilt
  <2> QED
    BY <2>1, <2>2, <2>4, <2>5, <2>6
<1>11. CASE CommitEmpty
  BY <1>11 DEF CommitEmpty, Staged, NoteEmpty, Stale
<1>12. CASE StageStops
  BY <1>12 DEF StageStops
<1>13. CASE Plan
  <2>1. PlanKeeps
    BY <1>13, PlanFacts DEF Plan
  <2>2. field' = field /\ dirty' = dirty /\ inbox' = inbox /\ staged' = staged /\ mesh' = mesh
    BY <1>13 DEF Plan
  <2>3. ASSUME NEW s \in Slots, space'[s] # None
        PROVE  /\ space'[s] = space[s]
               /\ state[s] = "ready" => state'[s] = "ready"
    <3>1. space'[s] = IF \E c \in Chunks : slotOf[c] = s /\ slotOf'[c] # s THEN None ELSE space[s]
      BY <2>1 DEF PlanKeeps
    <3>2. PICK c \in Chunks : c = space[s].chunk /\ slotOf[c] = s
      BY <2>3, <3>1 DEF Bodies
    <3>3. slotOf'[c] = s /\ slotOf[c] # None
      BY <2>3, <3>1, <3>2, ColliderAssumption DEF ColliderAssumption
    <3>4. state[s] = "ready" => state'[s] = "ready"
      BY <2>1, <3>2, <3>3 DEF PlanKeeps
    <3> QED
      BY <2>3, <3>1, <3>4
  <2> QED
    BY <2>2, <2>3
<1>14. CASE PlanHeld
  BY <1>14 DEF PlanHeld
<1>15. CASE Submit
  <2>1. field' = field /\ dirty' = dirty /\ space' = space
    BY <1>15 DEF Submit
  <2>2. ASSUME NEW s \in Slots, state'[s] # "ready" PROVE state[s] # "ready"
    BY <1>15, <2>2 DEF Submit, Refused, PlanStands
  <2> QED
    BY <2>1, <2>2
<1>16. CASE TakeBatch
  BY <1>16 DEF TakeBatch, ServiceStep
<1>17. CASE LodClearsBusy
  BY <1>17 DEF LodClearsBusy, ServiceStep
<1>18. CASE Spoil
  BY <1>18 DEF Spoil, ServiceStep
<1>19. CASE Restart
  BY <1>19 DEF Restart, NoSlot, NoMarks, NoVerdicts, NoBodies, NoMesh
<1>20. CASE UNCHANGED vars
  BY <1>20 DEF vars
<1> QED
  BY <1>1, <1>2, <1>3, <1>4, <1>5, <1>6, <1>7, <1>8, <1>9, <1>10, <1>11, <1>12, <1>13, <1>14,
    <1>15, <1>16, <1>17, <1>18, <1>19, <1>20 DEF Next, FrameStep, ServiceNext, WorldNext

(* A mesh that is waited for stays the one that is wanted.                 *)
LEMMA MeshesAgeStep ==
  ASSUME ColliderInv, [Next]_vars
  PROVE  MeshesAge'
<1> USE DEF ColliderInv, ColliderTypeOK, MeshStates, residency, SpaceMatchesResidency, Resident,
      StateOf, MeshesAge, InPlace, Places
<1>1. ASSUME NEW c \in Chunks, NEW kind \in Kinds, Edit(c, kind) PROVE MeshesAge'
  <2>1. /\ field' = [field EXCEPT ![c] = [version |-> field[c].version + 1, kind |-> kind]]
        /\ dirty' = dirty \cup {c} /\ space' = space /\ state' = state /\ slotOf' = slotOf
        /\ inbox' = inbox /\ staged' = staged /\ mesh' = mesh
    BY <1>1 DEF Edit
  <2>2. \A d \in Chunks : field[d].version \in Nat
    OBVIOUS
  <2>3. /\ field'[c].version = field[c].version + 1
        /\ \A d \in Chunks \ {c} : field'[d] = field[d]
    BY <1>1, <2>1
  <2>4. ASSUME NEW p \in Places, NEW a \in InPlace(p)
        PROVE  /\ a.version <= field'[a.chunk].version
               /\ StateOf(a.chunk)' = "building" =>
                    /\ a.chunk \notin dirty' =>
                         a.version = field'[a.chunk].version /\ a.kind = field'[a.chunk].kind
                    /\ a.chunk \in dirty' /\ p \in {"inbox", "staged"} =>
                         a.version < field'[a.chunk].version
                    /\ space'[slotOf'[a.chunk]] # None =>
                         space'[slotOf'[a.chunk]].version < a.version
    <3>0. a.chunk \in Chunks /\ a.version \in Nat
      <4>1. a \in Builds \cup Finished \cup Replacements
        BY <2>4 DEF InPlace, Places
      <4> QED
        BY <4>1 DEF Builds, Finished, Replacements
    <3>1. CASE a.chunk = c
      BY <2>1, <2>2, <2>3, <2>4, <3>0, <3>1
    <3>2. CASE a.chunk # c
      BY <2>1, <2>3, <2>4, <3>0, <3>2
    <3> QED
      BY <3>1, <3>2
  <2>5. \A p \in Places : InPlace(p)' = InPlace(p)
    BY <2>1
  <2> HIDE DEF InPlace, Places, StateOf
  <2> QED
    BY <2>4, <2>5
<1>2. ASSUME NEW v \in Views, Move(v) PROVE MeshesAge'
  BY <1>2 DEF Move
<1>3. ASSUME NEW r \in inbox, Enqueue(r) PROVE MeshesAge'
  BY <1>3 DEF Enqueue, NoteFailed, NoteDiscarded, Noted
<1>4. ASSUME NEW F \in SUBSET mesh.running, FinishBatch(F) PROVE MeshesAge'
  BY <1>4 DEF FinishBatch, ServiceStep, Result
<1>5. ASSUME NEW ok \in BOOLEAN, Rebuild(ok) PROVE MeshesAge'
  BY <1>5 DEF Rebuild, ServiceStep, Result
<1>6. CASE BeginFrame
  BY <1>6 DEF BeginFrame, DirtyState, DirtyProbes
<1>7. CASE StageStale
  BY <1>7 DEF StageStale, NoteDiscarded
<1>8. CASE StageOctant
  <2>1. /\ staged # None /\ staged'.chunk = staged.chunk /\ staged'.version = staged.version
        /\ staged'.kind = staged.kind
        /\ inbox' = inbox /\ mesh' = mesh /\ field' = field /\ dirty' = dirty
        /\ space' = space /\ state' = state /\ slotOf' = slotOf
    BY <1>8 DEF StageOctant, Replacements
  <2>2. /\ \A p \in Places \ {"staged"} : InPlace(p)' = InPlace(p)
        /\ \A a \in InPlace("staged")' : a = staged'
        /\ staged \in InPlace("staged")
    BY <2>1
  <2>3. ASSUME NEW p \in Places, NEW a \in InPlace(p)'
        PROVE  /\ a.version <= field'[a.chunk].version
               /\ StateOf(a.chunk)' = "building" =>
                    /\ a.chunk \notin dirty' =>
                         a.version = field'[a.chunk].version /\ a.kind = field'[a.chunk].kind
                    /\ a.chunk \in dirty' /\ p \in {"inbox", "staged"} =>
                         a.version < field'[a.chunk].version
                    /\ space'[slotOf'[a.chunk]] # None =>
                         space'[slotOf'[a.chunk]].version < a.version
    <3>1. PICK b \in InPlace(p) : b.chunk = a.chunk /\ b.version = a.version /\ b.kind = a.kind
      BY <2>1, <2>2, <2>3
    <3> HIDE DEF InPlace
    <3> QED
      BY <2>1, <3>1
  <2> HIDE DEF InPlace, Places, StateOf
  <2> QED
    BY <2>3
<1>9. CASE StageFails
  BY <1>9 DEF StageFails, NoteFailed, Noted, Stale
<1>10. CASE CommitBodies
  BY <1>10 DEF CommitBodies, Staged, NoteBuilt, Noted, Stale
<1>11. CASE CommitEmpty
  BY <1>11 DEF CommitEmpty, Staged, NoteEmpty, Stale
<1>12. CASE StageStops
  BY <1>12 DEF StageStops
<1>13. CASE Plan
  <2>1. PlanKeeps
    BY <1>13, PlanFacts DEF Plan
  <2>2. field' = field /\ dirty' = dirty /\ inbox' = inbox /\ staged' = staged /\ mesh' = mesh
    BY <1>13 DEF Plan
  <2>3. ASSUME NEW p \in Places, NEW a \in InPlace(p)
        PROVE  /\ a.version <= field'[a.chunk].version
               /\ StateOf(a.chunk)' = "building" =>
                    /\ a.chunk \notin dirty' =>
                         a.version = field'[a.chunk].version /\ a.kind = field'[a.chunk].kind
                    /\ a.chunk \in dirty' /\ p \in {"inbox", "staged"} =>
                         a.version < field'[a.chunk].version
                    /\ space'[slotOf'[a.chunk]] # None =>
                         space'[slotOf'[a.chunk]].version < a.version
    <3>0. a.chunk \in Chunks /\ a.version \in Nat
      <4>1. a \in Builds \cup Finished \cup Replacements
        BY <2>3 DEF InPlace, Places
      <4> QED
        BY <4>1 DEF Builds, Finished, Replacements
    <3>1. a.chunk \in inFlight /\ a.chunk \notin builds'
      BY <2>1, <2>3 DEF OneBuild, PlanKeeps
    <3>2. StateOf(a.chunk)' = "building" =>
            /\ StateOf(a.chunk) = "building" /\ slotOf'[a.chunk] = slotOf[a.chunk]
            /\ slotOf[a.chunk] \in Slots
      <4> HIDE DEF InPlace, Places, MeshesAge
      <4> QED
        BY <2>1, <3>0, <3>1 DEF PlanKeeps
    <3>3. \A s \in Slots : space'[s] # None => space'[s] = space[s]
      BY <2>1 DEF PlanKeeps
    <3> QED
      BY <2>2, <2>3, <3>2, <3>3
  <2>4. \A p \in Places : InPlace(p)' = InPlace(p)
    BY <2>2
  <2> HIDE DEF InPlace, Places, StateOf
  <2> QED
    BY <2>3, <2>4
<1>14. CASE PlanHeld
  BY <1>14 DEF PlanHeld
<1>15. CASE Submit
  <2>1. /\ inbox' = inbox /\ staged' = staged /\ field' = field /\ dirty' = dirty
        /\ space' = space /\ slotOf' = slotOf
        /\ \A s \in Slots : state'[s] = "building" => state[s] = "building"
    BY <1>15 DEF Submit, Refused
  <2>2. \A p \in Places : \A a \in InPlace(p)' :
          a \in InPlace(p) \/ (p = "queued" /\ a \in Requests)
    <3> HIDE DEF MeshesAge
    <3>1. CASE mesh.valid /\ mesh.queued = {} /\ ~mesh.busy
      <4>1. mesh' = [mesh EXCEPT !.queued = Requests, !.busy = TRUE]
        BY <1>15, <3>1 DEF Submit
      <4>2. mesh'.queued = Requests /\ mesh'.running = mesh.running /\ mesh'.results = mesh.results
        BY <4>1
      <4> QED
        BY <2>1, <4>2
    <3>2. CASE ~(mesh.valid /\ mesh.queued = {} /\ ~mesh.busy)
      BY <1>15, <2>1, <3>2 DEF Submit
    <3> QED
      BY <3>1, <3>2
  <2>3. ASSUME NEW c \in Chunks, StateOf(c)' = "building" PROVE StateOf(c) = "building"
    BY <2>1, <2>3
  <2>4. ASSUME NEW c \in Chunks, StateOf(c) = "building", space[slotOf[c]] # None
        PROVE  space[slotOf[c]].version < field[c].version
    <3>1. slotOf[c] \in Slots /\ slotOf[c] # None /\ state[slotOf[c]] # "ready"
      BY <2>4
    <3>2. space[slotOf[c]].chunk = c
      BY <2>4, <3>1 DEF Bodies
    <3> QED
      BY <2>4, <3>1, <3>2 DEF BodiesAge
  <2>5. ASSUME NEW p \in Places, NEW a \in InPlace(p)'
        PROVE  /\ a.version <= field'[a.chunk].version
               /\ StateOf(a.chunk)' = "building" =>
                    /\ a.chunk \notin dirty' =>
                         a.version = field'[a.chunk].version /\ a.kind = field'[a.chunk].kind
                    /\ a.chunk \in dirty' /\ p \in {"inbox", "staged"} =>
                         a.version < field'[a.chunk].version
                    /\ space'[slotOf'[a.chunk]] # None =>
                         space'[slotOf'[a.chunk]].version < a.version
    <3>1. CASE a \in InPlace(p)
      <4>1. a.chunk \in Chunks
        <5>1. a \in Builds \cup Finished \cup Replacements
          BY <3>1 DEF InPlace, Places
        <5> QED
          BY <5>1 DEF Builds, Finished, Replacements
      <4> QED
        BY <2>1, <2>3, <3>1, <4>1
    <3>2. CASE p = "queued" /\ a \in Requests
      <4>1. /\ a.chunk \in Chunks /\ a.version = field[a.chunk].version
            /\ a.kind = field[a.chunk].kind
        BY <3>2 DEF Requests
      <4>2. a.version \in Nat
        BY <4>1
      <4> HIDE DEF MeshesAge, InPlace
      <4> QED
        BY <2>1, <2>3, <2>4, <3>2, <4>1, <4>2
    <3> QED
      BY <2>2, <2>5, <3>1, <3>2
  <2> HIDE DEF InPlace, Places, StateOf
  <2> QED
    BY <2>5
<1>16. CASE TakeBatch
  BY <1>16 DEF TakeBatch, ServiceStep
<1>17. CASE LodClearsBusy
  BY <1>17 DEF LodClearsBusy, ServiceStep
<1>18. CASE Spoil
  BY <1>18 DEF Spoil, ServiceStep
<1>19. CASE Restart
  BY <1>19 DEF Restart, NoSlot, NoMarks, NoVerdicts, NoBodies, NoMesh
<1>20. CASE UNCHANGED vars
  BY <1>20 DEF vars
<1> QED
  BY <1>1, <1>2, <1>3, <1>4, <1>5, <1>6, <1>7, <1>8, <1>9, <1>10, <1>11, <1>12, <1>13, <1>14,
    <1>15, <1>16, <1>17, <1>18, <1>19, <1>20 DEF Next, FrameStep, ServiceNext, WorldNext

(* Nothing comes between a plan and its submission.                        *)
LEMMA PlanStandsStep ==
  ASSUME ColliderInv, [Next]_vars
  PROVE  PlanStands'
<1> USE DEF ColliderInv, ColliderTypeOK, residency, Resident, StateOf, PlanStands
<1>1. ASSUME NEW c \in Chunks, NEW kind \in Kinds, Edit(c, kind) PROVE PlanStands'
  BY <1>1 DEF Edit
<1>2. ASSUME NEW v \in Views, Move(v) PROVE PlanStands'
  BY <1>2 DEF Move
<1>3. ASSUME NEW r \in inbox, Enqueue(r) PROVE PlanStands'
  BY <1>3 DEF Enqueue, NoteFailed, NoteDiscarded, Noted, Staging
<1>4. ASSUME NEW F \in SUBSET mesh.running, FinishBatch(F) PROVE PlanStands'
  BY <1>4 DEF FinishBatch, ServiceStep, Result
<1>5. ASSUME NEW ok \in BOOLEAN, Rebuild(ok) PROVE PlanStands'
  BY <1>5 DEF Rebuild, ServiceStep, Result
<1>6. CASE BeginFrame
  BY <1>6 DEF BeginFrame, DirtyState, DirtyProbes
<1>7. CASE StageStale
  BY <1>7 DEF StageStale, NoteDiscarded, Staging
<1>8. CASE StageOctant
  BY <1>8 DEF StageOctant, Staging
<1>9. CASE StageFails
  BY <1>9 DEF StageFails, NoteFailed, Noted, Stale, Staging
<1>10. CASE CommitBodies
  BY <1>10 DEF CommitBodies, Staged, NoteBuilt, Noted, Stale, Staging
<1>11. CASE CommitEmpty
  BY <1>11 DEF CommitEmpty, Staged, NoteEmpty, Stale, Staging
<1>12. CASE StageStops
  BY <1>12 DEF StageStops
<1>13. CASE Plan
  <2>1. PlanKeeps
    BY <1>13, PlanFacts DEF Plan, SpaceMatchesResidency
  <2>2. field' = field /\ dirty' = dirty /\ inbox' = inbox /\ staged' = staged /\ mesh' = mesh
    BY <1>13 DEF Plan
  <2>3. ASSUME NEW c \in builds' PROVE StateOf(c)' = "building"
    <3>1. c \in Chunks /\ slotOf'[c] # None
      BY <2>1, <2>3 DEF PlanKeeps
    <3>2. state'[slotOf'[c]] = "building"
      BY <2>1, <2>3, <3>1 DEF PlanKeeps
    <3> QED
      BY <3>1, <3>2
  <2> QED
    BY <2>3
<1>14. CASE PlanHeld
  BY <1>14 DEF PlanHeld
<1>15. CASE Submit
  BY <1>15 DEF Submit, Requests, Refused
<1>16. CASE TakeBatch
  BY <1>16 DEF TakeBatch, ServiceStep
<1>17. CASE LodClearsBusy
  BY <1>17 DEF LodClearsBusy, ServiceStep
<1>18. CASE Spoil
  BY <1>18 DEF Spoil, ServiceStep
<1>19. CASE Restart
  BY <1>19 DEF Restart, NoSlot, NoMarks, NoVerdicts, NoBodies, NoMesh
<1>20. CASE UNCHANGED vars
  BY <1>20 DEF vars
<1> QED
  BY <1>1, <1>2, <1>3, <1>4, <1>5, <1>6, <1>7, <1>8, <1>9, <1>10, <1>11, <1>12, <1>13, <1>14,
    <1>15, <1>16, <1>17, <1>18, <1>19, <1>20 DEF Next, FrameStep, ServiceNext, WorldNext

-----------------------------------------------------------------------------
(* No chunk is resident and nothing is on its way.                         *)
LEMMA ColliderInvInit ==
  ASSUME Init
  PROVE  ColliderInv
<1>1. ColliderTypeOK
  BY ColliderTypeInit
<1>2. Resident = {} /\ \A c \in Chunks : StateOf(c) = "absent"
  BY DEF Init, NoSlot, Resident, StateOf
<1>3. \A p \in Places : InPlace(p) = {}
  BY DEF Init, NoMesh, InPlace, Places
<1>4. OneBuild /\ MeshesAge /\ PlanStands
  BY <1>3 DEF Init, OneBuild, MeshesAge, PlanStands
<1>5. \A s \in Slots : space[s] = None
  BY DEF Init, NoBodies
<1>6. BodiesAge /\ SpaceMatchesResidency
  BY <1>2, <1>5 DEF BodiesAge, SpaceMatchesResidency
<1>7. VerdictsAreTrue
  BY <1>2 DEF Init, NoVerdicts, VerdictsAreTrue
<1> QED
  BY <1>1, <1>4, <1>6, <1>7 DEF ColliderInv

(* Of every pool, every set of players and every edit: the marks, the      *)
(* meshes on their way and the bodies agree at every step.                 *)
THEOREM ColliderInvariant == Spec => []ColliderInv
<1>1. Init => ColliderInv
  BY ColliderInvInit
<1>2. ColliderInv /\ [Next]_vars => ColliderInv'
  <2> SUFFICES ASSUME ColliderInv, [Next]_vars PROVE ColliderInv'
    OBVIOUS
  <2>1. ColliderTypeOK'
    BY ColliderTypeStep DEF ColliderInv
  <2>2. OneBuild' /\ PlanStands' /\ MeshesAge' /\ BodiesAge'
    BY OneBuildStep, PlanStandsStep, MeshesAgeStep, BodiesAgeStep
  <2>3. SpaceMatchesResidency' /\ VerdictsAreTrue'
    BY MatchesStep, VerdictsStep
  <2> QED
    BY <2>1, <2>2, <2>3 DEF ColliderInv
<1> QED
  BY <1>1, <1>2, PTL DEF Spec

(* No two chunks share a slot and nobody collides with ground that was     *)
(* given up.                                                               *)
THEOREM BodiesFollowTheirChunk == Spec => []SpaceMatchesResidency
<1>1. ColliderInv => SpaceMatchesResidency
  BY DEF ColliderInv
<1> QED
  BY <1>1, ColliderInvariant, PTL

(* A chunk that counts as ready collides as it is, and no verdict hides    *)
(* ground.                                                                 *)
THEOREM SettledChunksAreTrue == Spec => []VerdictsAreTrue
<1>1. ColliderInv => VerdictsAreTrue
  BY DEF ColliderInv
<1> QED
  BY <1>1, ColliderInvariant, PTL
-----------------------------------------------------------------------------
(* The step of CollidersOnlyAdvance.                                       *)
Advance ==
  \A s \in Slots : space[s] # None =>
    \/ space'[s] = space[s]
    \/ slotOf'[space[s].chunk] # s /\ space'[s] = None
    \/ /\ space'[s] # None
       /\ space'[s].chunk = space[s].chunk
       /\ space'[s].version > space[s].version

(* Only a plan, a commit and a restart touch the bodies.                   *)
LEMMA SpaceAdvancesStep ==
  ASSUME ColliderInv, [Next]_vars
  PROVE  Advance
<1> USE DEF ColliderInv, ColliderTypeOK, residency, Advance
<1>1. ASSUME NEW c \in Chunks, NEW kind \in Kinds, Edit(c, kind) PROVE Advance
  BY <1>1 DEF Edit
<1>2. ASSUME NEW v \in Views, Move(v) PROVE Advance
  BY <1>2 DEF Move
<1>3. ASSUME NEW r \in inbox, Enqueue(r) PROVE Advance
  BY <1>3 DEF Enqueue, NoteFailed, NoteDiscarded, Noted
<1>4. ASSUME NEW F \in SUBSET mesh.running, FinishBatch(F) PROVE Advance
  BY <1>4 DEF FinishBatch, ServiceStep, Result
<1>5. ASSUME NEW ok \in BOOLEAN, Rebuild(ok) PROVE Advance
  BY <1>5 DEF Rebuild, ServiceStep, Result
<1>6. CASE BeginFrame
  BY <1>6 DEF BeginFrame, DirtyState, DirtyProbes
<1>7. CASE StageStale
  BY <1>7 DEF StageStale, NoteDiscarded
<1>8. CASE StageOctant
  BY <1>8 DEF StageOctant, Staging
<1>9. CASE StageFails
  BY <1>9 DEF StageFails, NoteFailed, Noted, Stale
<1>10. CASE CommitBodies
  <2> DEFINE t == staged.slot
             c == staged.chunk
  <2>1. /\ staged \in Replacements /\ slotOf[c] = t /\ StateOf(c) = "building"
        /\ space' = [space EXCEPT ![t] = [chunk |-> c, version |-> staged.version]]
    BY <1>10 DEF CommitBodies, Staged, Stale
  <2>2. c \in Chunks /\ t \in Slots /\ staged.version \in Nat
    BY <2>1 DEF Replacements
  <2>3. None \notin Slots /\ [chunk |-> c, version |-> staged.version] # None
    BY <2>2, ColliderAssumption DEF ColliderAssumption
  <2>4. /\ \A s \in Slots \ {t} : space'[s] = space[s]
        /\ space'[t] = [chunk |-> c, version |-> staged.version]
    BY <2>1, <2>2
  <2>5. ASSUME space[t] # None PROVE space[t].chunk = c /\ space[t].version < staged.version
    <3>1. space[t].chunk \in Chunks /\ slotOf[space[t].chunk] = t
      BY <2>2, <2>5 DEF SpaceMatchesResidency, Bodies
    <3>2. space[t].chunk = c
      BY <2>1, <2>2, <2>3, <3>1 DEF SpaceMatchesResidency, Resident
    <3>3. staged \in InPlace("staged") /\ "staged" \in Places
      BY <1>10 DEF CommitBodies, Staged, InPlace, Places
    <3>4. space[slotOf[c]] # None => space[slotOf[c]].version < staged.version
      BY <2>1, <3>3 DEF MeshesAge
    <3> QED
      BY <2>1, <2>5, <3>2, <3>4
  <2>6. space[t] # None => space[t].version \in Nat
    BY <2>2 DEF Bodies
  <2> QED
    BY <2>2, <2>3, <2>4, <2>5, <2>6
<1>11. CASE CommitEmpty
  <2> DEFINE t == staged.slot
             c == staged.chunk
  <2>1. /\ staged \in Replacements /\ slotOf[c] = t
        /\ space' = [space EXCEPT ![t] = None]
        /\ slotOf' = [slotOf EXCEPT ![c] = None]
    BY <1>11 DEF CommitEmpty, Staged, Stale, NoteEmpty
  <2>2. c \in Chunks /\ t \in Slots /\ None \notin Slots
    BY <2>1, ColliderAssumption DEF Replacements, ColliderAssumption
  <2>3. space[t] # None => space[t].chunk = c
    BY <2>1, <2>2 DEF SpaceMatchesResidency, Resident, Bodies
  <2> QED
    BY <2>1, <2>2, <2>3
<1>12. CASE StageStops
  BY <1>12 DEF StageStops
<1>13. CASE Plan
  <2>1. PlanKeeps
    BY <1>13, PlanFacts DEF Plan, SpaceMatchesResidency
  <2>2. ASSUME NEW s \in Slots, space[s] # None, space'[s] # space[s]
        PROVE  slotOf'[space[s].chunk] # s /\ space'[s] = None
    <3>1. PICK c \in Chunks : slotOf[c] = s /\ slotOf'[c] # s
      BY <2>1, <2>2 DEF PlanKeeps
    <3>2. space'[s] = None
      BY <2>1, <3>1 DEF PlanKeeps
    <3>3. space[s].chunk \in Chunks /\ slotOf[space[s].chunk] = s
      BY <2>2 DEF SpaceMatchesResidency, Bodies
    <3>4. None \notin Slots
      BY ColliderAssumption DEF ColliderAssumption
    <3>5. space[s].chunk = c
      BY <3>1, <3>3, <3>4 DEF SpaceMatchesResidency, Resident
    <3> QED
      BY <3>1, <3>2, <3>5
  <2> QED
    BY <2>2
<1>14. CASE PlanHeld
  BY <1>14 DEF PlanHeld
<1>15. CASE Submit
  BY <1>15 DEF Submit, Requests, Refused
<1>16. CASE TakeBatch
  BY <1>16 DEF TakeBatch, ServiceStep
<1>17. CASE LodClearsBusy
  BY <1>17 DEF LodClearsBusy, ServiceStep
<1>18. CASE Spoil
  BY <1>18 DEF Spoil, ServiceStep
<1>19. CASE Restart
  <2>1. /\ slotOf' = [c \in Chunks |-> None] /\ space' = [s \in Slots |-> None]
        /\ None \notin Slots
    BY <1>19, ColliderAssumption DEF Restart, NoSlot, NoBodies, ColliderAssumption
  <2>2. \A s \in Slots : space[s] # None => space[s].chunk \in Chunks
    BY DEF Bodies
  <2> QED
    BY <2>1, <2>2
<1>20. CASE UNCHANGED vars
  BY <1>20 DEF vars
<1> QED
  BY <1>1, <1>2, <1>3, <1>4, <1>5, <1>6, <1>7, <1>8, <1>9, <1>10, <1>11, <1>12, <1>13, <1>14,
    <1>15, <1>16, <1>17, <1>18, <1>19, <1>20 DEF Next, FrameStep, ServiceNext, WorldNext


(* Bodies leave with their slot and give way only to newer ones.           *)
THEOREM BodiesOnlyAdvance == Spec => CollidersOnlyAdvance
<1>1. ColliderInv /\ [Next]_vars => Advance
  BY SpaceAdvancesStep
<1>2. Advance <=>
        \A s \in Slots : space[s] # None =>
          \/ space'[s] = space[s]
          \/ slotOf'[space[s].chunk] # s /\ space'[s] = None
          \/ /\ space'[s] # None
             /\ space'[s].chunk = space[s].chunk
             /\ space'[s].version > space[s].version
  BY DEF Advance
<1> QED
  BY <1>1, <1>2, ColliderInvariant, PTL DEF Spec, CollidersOnlyAdvance
=============================================================================

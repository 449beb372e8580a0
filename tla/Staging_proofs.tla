---------------------------- MODULE Staging_proofs -----------------------------
(***************************************************************************)
(* Proofs about stage-only ingress, for every set of processes and events, *)
(* every way ids are shared, and every bound on what is killed and fails.  *)
(***************************************************************************)
EXTENDS Staging, TLAPS

StepTypes ==
  /\ lock \in Callers \cup {Nobody}
  /\ tmp \in [Ids -> DirType]
  /\ incoming \in [Ids -> DirType]
  /\ pc \in [Callers -> {"idle"} \cup Locked]
  /\ event \in [Callers -> Events \cup {NoEvent}]
  /\ told \subseteq Events
  /\ cut \subseteq Ids
  /\ kills \in 0 .. MaxKills
  /\ errors \in 0 .. MaxErrors
  /\ \A c \in Callers : pc[c] \in Locked => lock = c /\ event[c] \in Events

Whole(dir) == \E f \in dir.images : f.whole
Removing(i) == \E c \in Callers : pc[c] = "remove" /\ TaskId(c) = i

\* What is about to be published is whole.
Assembled ==
  \A c \in Callers :
    /\ pc[c] \in {"describe", "publish"} => Whole(tmp[TaskId(c)])
    /\ pc[c] = "publish" => tmp[TaskId(c)].status # "none"

Complete ==
  \A i \in Ids \ cut :
    \/ ~Occupied(incoming[i])
    \/ incoming[i].status # "none" /\ Whole(incoming[i])
    \/ Removing(i)

\* Who marks a directory has found or put one there.
Marked == \A c \in Callers : pc[c] = "mark" => Occupied(incoming[TaskId(c)])

StageInv == StepTypes /\ Assembled /\ Complete /\ Marked

LEMMA TypeOKIs == StageInv => StagingTypeOK
  BY DEF StageInv, StepTypes, Complete, StagingTypeOK, Whole, Removing

-----------------------------------------------------------------------------
(* Directories. *)

LEMMA NoDirTyped == NoDir \in DirType
  BY DEF NoDir, DirType

LEMMA Stored ==
  ASSUME NEW dir \in DirType, NEW e \in Events, NEW whole \in BOOLEAN
  PROVE  /\ Store(dir, e, whole) \in DirType
         /\ [of |-> e, whole |-> whole] \in Store(dir, e, whole).images
         /\ Store(dir, e, whole).images
              = {f \in dir.images : Name[f.of] # Name[e]} \cup {[of |-> e, whole |-> whole]}
<1> DEFINE image == [of |-> e, whole |-> whole]
           images == {f \in dir.images : Name[f.of] # Name[e]} \cup {image}
<1>1. image \in FileType
  BY Zenon DEF FileType
<1>2. images \subseteq FileType
  BY <1>1 DEF DirType
<1>3. Store(dir, e, whole) = [dir EXCEPT !.images = images]
  BY DEF Store
<1>4. image \in images
  OBVIOUS
<1> HIDE DEF images
<1>5. Store(dir, e, whole) \in DirType /\ Store(dir, e, whole).images = images
  BY <1>2, <1>3 DEF DirType
<1> QED
  BY <1>4, <1>5 DEF images

LEMMA StoredWhole ==
  ASSUME NEW dir \in DirType, NEW e \in Events
  PROVE  Whole(Store(dir, e, TRUE))
<1>1. [of |-> e, whole |-> TRUE].whole = TRUE
  OBVIOUS
<1> QED
  BY <1>1, Stored DEF Whole

LEMMA DirChanged ==
  ASSUME NEW dir \in DirType, NEW status \in {"none", "accepted", "saved"}, NEW left \in BOOLEAN,
         NEW images \in SUBSET dir.images
  PROVE  /\ [dir EXCEPT !.status = status] \in DirType
         /\ [dir EXCEPT !.left = left] \in DirType
         /\ [dir EXCEPT !.images = images] \in DirType
         /\ [dir EXCEPT !.status = status, !.left = left] \in DirType
         /\ [dir EXCEPT !.status = status].images = dir.images
         /\ [dir EXCEPT !.status = status].status = status
         /\ [dir EXCEPT !.left = left].images = dir.images
         /\ [dir EXCEPT !.left = left].status = dir.status
         /\ [dir EXCEPT !.status = status, !.left = left].images = dir.images
         /\ [dir EXCEPT !.status = status, !.left = left].status = status
  BY DEF DirType

\* Only one process has an event, the one that holds the lock.
LEMMA OneAtATime ==
  ASSUME StepTypes, NEW c \in Callers, NEW d \in Callers, pc[c] # "idle", pc[d] # "idle"
  PROVE  c = d
  BY DEF StepTypes

LEMMA InitStaged == Init => StageInv
<1> SUFFICES ASSUME Init PROVE StageInv
  OBVIOUS
<1>1. StepTypes
  BY NoDirTyped, StagingAssumption DEF Init, StepTypes, Locked
<1> QED
  BY <1>1 DEF Init, StageInv, Assembled, Complete, Marked, Occupied

-----------------------------------------------------------------------------
(* Steps. *)

FileTypes ==
  /\ tmp \in [Ids -> DirType]
  /\ incoming \in [Ids -> DirType]
  /\ cut \subseteq Ids
  /\ kills \in 0 .. MaxKills
  /\ errors \in 0 .. MaxErrors

Sound(dir) == ~Occupied(dir) \/ (dir.status # "none" /\ Whole(dir))

\* A process that leaves, leaves nothing but complete directories.
LEMMA LeaveKeeps ==
  ASSUME StageInv, NEW c \in Callers, pc[c] # "idle", Leave(c), FileTypes', told' \subseteq Events,
         \A i \in Ids \ cut' : Sound(incoming'[i])
  PROVE  StageInv' /\ \A d \in Callers : pc'[d] = "idle"
<1>1. /\ lock' = Nobody
      /\ pc' \in [Callers -> {"idle"} \cup Locked]
      /\ event' \in [Callers -> Events \cup {NoEvent}]
  BY DEF StageInv, StepTypes, Leave, Goto
<1>2. \A d \in Callers : pc'[d] = "idle"
  <2>1. \A d \in Callers : d # c => pc[d] = "idle"
    BY OneAtATime DEF StageInv
  <2> QED
    BY <2>1 DEF Leave, Goto, StageInv, StepTypes
<1>3. "idle" \notin Locked
  BY DEF Locked
<1>4. StepTypes'
  BY <1>1, <1>2, <1>3 DEF StepTypes, FileTypes
<1>5. Assembled' /\ Marked' /\ Complete'
  BY <1>2 DEF Assembled, Marked, Complete, Sound
<1> QED
  BY <1>2, <1>4, <1>5 DEF StageInv

LEMMA StayKeeps ==
  ASSUME StageInv, NEW c \in Callers, pc[c] # "idle", NEW next \in Locked, Stay(c, next), FileTypes',
         \A i \in Ids \ cut' : Sound(incoming'[i]) \/ (next = "remove" /\ i = TaskId(c)),
         next \in {"describe", "publish"} => Whole(tmp'[TaskId(c)]),
         next = "publish" => tmp'[TaskId(c)].status # "none",
         next = "mark" => Occupied(incoming'[TaskId(c)])
  PROVE  StageInv'
<1>1. /\ lock = c /\ event[c] \in Events /\ pc[c] \in Locked
      /\ UNCHANGED <<lock, event, told>>
      /\ pc' \in [Callers -> {"idle"} \cup Locked] /\ pc'[c] = next
  BY DEF StageInv, StepTypes, Stay, Goto, Locked
<1>2. \A d \in Callers : d # c => pc'[d] = "idle"
  <2>1. \A d \in Callers : d # c => pc[d] = "idle"
    BY OneAtATime DEF StageInv
  <2> QED
    BY <2>1 DEF Stay, Goto, StageInv, StepTypes
<1>3. "idle" \notin Locked
  BY DEF Locked
<1>4. TaskId(c)' = TaskId(c)
  BY <1>1 DEF TaskId
<1>5. StepTypes'
  BY <1>1, <1>2, <1>3 DEF StepTypes, FileTypes, StageInv
<1>6. Assembled'
  BY <1>1, <1>2, <1>4 DEF Assembled
<1>7. Marked'
  BY <1>1, <1>2, <1>4 DEF Marked
<1>8. Complete'
  <2> SUFFICES ASSUME NEW i \in Ids \ cut', ~Sound(incoming'[i]) PROVE Removing(i)'
    BY DEF Complete, Sound
  <2>1. next = "remove" /\ i = TaskId(c)
    OBVIOUS
  <2> QED
    BY <1>1, <1>4, <2>1 DEF Removing
<1> QED
  BY <1>5, <1>6, <1>7, <1>8 DEF StageInv

\* Outside a removal, what is in incoming is complete.
LEMMA SoundNow ==
  ASSUME StageInv, NEW c \in Callers, pc[c] # "idle", pc[c] # "remove"
  PROVE  \A i \in Ids \ cut : Sound(incoming[i])
<1>1. \A d \in Callers : pc[d] # "remove"
  BY OneAtATime DEF StageInv
<1> QED
  BY <1>1 DEF StageInv, Complete, Removing, Sound

LEMMA TypesNow ==
  ASSUME StageInv, NEW c \in Callers, pc[c] # "idle"
  PROVE  /\ FileTypes /\ event[c] \in Events /\ TaskId(c) \in Ids /\ told \subseteq Events
         /\ tmp[TaskId(c)] \in DirType /\ incoming[TaskId(c)] \in DirType
<1>1. event[c] \in Events /\ FileTypes /\ told \subseteq Events
  BY DEF StageInv, StepTypes, FileTypes
<1>2. TaskId(c) \in Ids
  BY <1>1, StagingAssumption DEF TaskId
<1> QED
  BY <1>1, <1>2 DEF FileTypes

LEMMA BeginStaged ==
  ASSUME StageInv, NEW c \in Callers, Begin(c)
  PROVE  StageInv'
<1>1. /\ lock = Nobody /\ lock' = c /\ pc' = [pc EXCEPT ![c] = "look"]
      /\ UNCHANGED <<tmp, incoming, told, cut, kills, errors>>
  BY DEF Begin, Goto, files
<1>2. PICK e \in Events : event' = [event EXCEPT ![c] = e]
  BY DEF Begin
<1>3. \A d \in Callers : pc[d] = "idle"
  BY <1>1, StagingAssumption DEF StageInv, StepTypes
<1>4. StepTypes'
  BY <1>1, <1>2, <1>3 DEF StageInv, StepTypes, Locked
<1>5. \A d \in Callers : pc'[d] \in {"idle", "look"}
  BY <1>1, <1>3 DEF StageInv, StepTypes
<1>6. Complete'
  BY <1>1, <1>3 DEF StageInv, Complete, Removing
<1> QED
  BY <1>4, <1>5, <1>6 DEF StageInv, Assembled, Marked

LEMMA LookStaged ==
  ASSUME StageInv, NEW c \in Callers, Look(c)
  PROVE  StageInv'
<1>1. pc[c] = "look" /\ UNCHANGED <<tmp, incoming, cut, kills, errors>>
  BY DEF Look, files
<1>2. FileTypes' /\ event[c] \in Events /\ told \subseteq Events
  BY <1>1, TypesNow DEF FileTypes
<1>3. \A i \in Ids \ cut' : Sound(incoming'[i])
  BY <1>1, SoundNow
<1>4. CASE Reply(c)
  BY <1>1, <1>2, <1>3, <1>4, LeaveKeeps DEF Reply
<1>5. CASE incoming[TaskId(c)].status # "none" /\ Stay(c, "mark")
  <2>1. Occupied(incoming'[TaskId(c)])
    BY <1>1, <1>5 DEF Occupied, NoDir
  <2> QED
    BY <1>1, <1>2, <1>3, <1>5, <2>1, StayKeeps DEF Locked
<1>6. CASE Stay(c, "make")
  BY <1>1, <1>2, <1>3, <1>6, StayKeeps DEF Locked
<1> QED
  BY <1>4, <1>5, <1>6 DEF Look

LEMMA MakeStaged ==
  ASSUME StageInv, NEW c \in Callers, Make(c) \/ Copy(c) \/ Describe(c)
  PROVE  StageInv'
<1>1. pc[c] \in {"make", "copy", "describe"} /\ UNCHANGED <<incoming, cut, kills, errors>>
  BY DEF Make, Copy, Describe
<1>2. FileTypes /\ event[c] \in Events /\ TaskId(c) \in Ids /\ tmp[TaskId(c)] \in DirType
  BY <1>1, TypesNow
<1>3. \A i \in Ids \ cut' : Sound(incoming'[i])
  BY <1>1, SoundNow
<1>4. ASSUME NEW dir \in DirType, tmp' = [tmp EXCEPT ![TaskId(c)] = dir]
      PROVE  FileTypes' /\ tmp'[TaskId(c)] = dir
  BY <1>1, <1>2, <1>4 DEF FileTypes
<1>5. CASE Make(c)
  <2> DEFINE dir == Store(tmp[TaskId(c)], event[c], FALSE)
  <2>1. dir \in DirType
    BY <1>2, Stored
  <2>2. tmp' = [tmp EXCEPT ![TaskId(c)] = dir] /\ Stay(c, "copy")
    BY <1>5 DEF Make
  <2> HIDE DEF dir
  <2> QED
    BY <1>1, <1>3, <1>4, <2>1, <2>2, StayKeeps DEF Locked
<1>6. CASE Copy(c)
  <2> DEFINE dir == Store(tmp[TaskId(c)], event[c], TRUE)
  <2>1. dir \in DirType /\ Whole(dir)
    BY <1>2, Stored, StoredWhole
  <2>2. tmp' = [tmp EXCEPT ![TaskId(c)] = dir] /\ Stay(c, "describe")
    BY <1>6 DEF Copy
  <2> HIDE DEF dir
  <2> QED
    BY <1>1, <1>3, <1>4, <2>1, <2>2, StayKeeps DEF Locked
<1>7. CASE Describe(c)
  <2> DEFINE dir == [tmp[TaskId(c)] EXCEPT !.status = "accepted"]
  <2>1. dir \in DirType /\ dir.status = "accepted" /\ dir.images = tmp[TaskId(c)].images
    BY <1>2 DEF DirType
  <2>2. tmp' = [tmp EXCEPT ![TaskId(c)] = dir] /\ pc[c] = "describe" /\ Stay(c, "publish")
    BY <1>7 DEF Describe
  <2>3. Whole(tmp[TaskId(c)])
    BY <2>2 DEF StageInv, Assembled
  <2>4. Whole(dir)
    BY <2>1, <2>3 DEF Whole
  <2> HIDE DEF dir
  <2> QED
    BY <1>1, <1>3, <1>4, <2>1, <2>2, <2>4, StayKeeps DEF Locked
<1> QED
  BY <1>5, <1>6, <1>7

LEMMA PublishStaged ==
  ASSUME StageInv, NEW c \in Callers, Publish(c)
  PROVE  StageInv'
<1>1. pc[c] = "publish" /\ UNCHANGED <<cut, kills>> /\ tmp' = [tmp EXCEPT ![TaskId(c)] = NoDir]
  BY DEF Publish
<1>2. FileTypes /\ event[c] \in Events /\ TaskId(c) \in Ids /\ told \subseteq Events
      /\ tmp[TaskId(c)] \in DirType
  BY <1>1, TypesNow
<1>3. \A i \in Ids \ cut : Sound(incoming[i])
  BY <1>1, SoundNow
<1>4. tmp' \in [Ids -> DirType]
  BY <1>1, <1>2, NoDirTyped DEF FileTypes
<1>5. Whole(tmp[TaskId(c)]) /\ tmp[TaskId(c)].status # "none"
  BY <1>1 DEF StageInv, Assembled
<1>6. CASE /\ incoming' = [incoming EXCEPT ![TaskId(c)] = tmp[TaskId(c)]]
           /\ Stay(c, "mark") /\ UNCHANGED errors
  <2>1. incoming' \in [Ids -> DirType] /\ incoming'[TaskId(c)] = tmp[TaskId(c)]
    BY <1>2, <1>6 DEF FileTypes
  <2>2. FileTypes'
    BY <1>1, <1>2, <1>4, <1>6, <2>1 DEF FileTypes
  <2>3. Sound(tmp[TaskId(c)]) /\ Occupied(tmp[TaskId(c)])
    BY <1>5 DEF Sound, Occupied, NoDir
  <2>4. \A i \in Ids \ cut' : Sound(incoming'[i])
    <3> TAKE i \in Ids \ cut'
    <3>1. CASE i = TaskId(c)
      BY <2>1, <2>3, <3>1
    <3>2. CASE i # TaskId(c)
      <4>1. incoming'[i] = incoming[i]
        BY <1>2, <1>6, <3>2 DEF FileTypes
      <4> QED
        BY <1>1, <1>3, <4>1
    <3> QED
      BY <3>1, <3>2
  <2> QED
    BY <1>1, <1>6, <2>1, <2>2, <2>3, <2>4, StayKeeps DEF Locked
<1>7. CASE Reject(c) /\ UNCHANGED incoming /\ (UNCHANGED errors \/ Fault)
  <2>1. FileTypes'
    BY <1>1, <1>2, <1>4, <1>7, StagingAssumption DEF FileTypes, Fault
  <2> QED
    BY <1>1, <1>2, <1>3, <1>7, <2>1, LeaveKeeps DEF Reject
<1> QED
  BY <1>6, <1>7 DEF Publish

\* What an update or a removal that goes on makes of one directory.
LEMMA OneChanges ==
  ASSUME StageInv, NEW c \in Callers, pc[c] # "idle", NEW dir \in DirType,
         incoming' = [incoming EXCEPT ![TaskId(c)] = dir], tmp' = tmp
  PROVE  /\ incoming' \in [Ids -> DirType] /\ tmp' \in [Ids -> DirType]
         /\ incoming'[TaskId(c)] = dir
         /\ \A i \in Ids : i # TaskId(c) => incoming'[i] = incoming[i]
  BY TypesNow DEF FileTypes

LEMMA MarkStaged ==
  ASSUME StageInv, NEW c \in Callers, Mark(c)
  PROVE  StageInv'
<1>1. pc[c] = "mark" /\ UNCHANGED <<tmp, cut, kills>>
  BY DEF Mark
<1>2. FileTypes /\ event[c] \in Events /\ TaskId(c) \in Ids /\ told \subseteq Events
      /\ incoming[TaskId(c)] \in DirType
  BY <1>1, TypesNow
<1>3. \A i \in Ids \ cut : Sound(incoming[i])
  BY <1>1, SoundNow
<1>4. Occupied(incoming[TaskId(c)])
  BY <1>1 DEF StageInv, Marked
<1>5. CASE /\ incoming' = [incoming EXCEPT ![TaskId(c)].status = "saved", ![TaskId(c)].left = FALSE]
           /\ Reply(c) /\ UNCHANGED errors
  <2> DEFINE dir == [incoming[TaskId(c)] EXCEPT !.status = "saved", !.left = FALSE]
  <2>1. dir \in DirType /\ dir.status = "saved" /\ dir.images = incoming[TaskId(c)].images
    BY <1>2 DEF DirType
  <2>2. incoming' = [incoming EXCEPT ![TaskId(c)] = dir]
    BY <1>2, <1>5 DEF FileTypes, DirType
  <2>3. TaskId(c) \notin cut => Whole(dir)
    BY <1>2, <1>3, <1>4, <2>1 DEF Sound, Whole
  <2> HIDE DEF dir
  <2>4. /\ incoming' \in [Ids -> DirType] /\ tmp' \in [Ids -> DirType]
        /\ incoming'[TaskId(c)] = dir
        /\ \A i \in Ids : i # TaskId(c) => incoming'[i] = incoming[i]
    BY <1>1, <2>1, <2>2, OneChanges
  <2>5. FileTypes'
    BY <1>1, <1>2, <1>5, <2>4 DEF FileTypes
  <2>6. \A i \in Ids \ cut' : Sound(incoming'[i])
    BY <1>1, <1>3, <2>1, <2>3, <2>4 DEF Sound
  <2> QED
    BY <1>1, <1>2, <1>5, <2>5, <2>6, LeaveKeeps DEF Reply
<1>6. CASE /\ Fault
           /\ \E left \in {incoming[TaskId(c)].left, TRUE} :
                incoming' = [incoming EXCEPT ![TaskId(c)].left = left]
           /\ Stay(c, "remove")
  <2>1. PICK left \in BOOLEAN : incoming' = [incoming EXCEPT ![TaskId(c)].left = left]
    BY <1>2, <1>6 DEF DirType
  <2> DEFINE dir == [incoming[TaskId(c)] EXCEPT !.left = left]
  <2>2. dir \in DirType
    BY <1>2, DirChanged
  <2>3. incoming' = [incoming EXCEPT ![TaskId(c)] = dir]
    BY <2>1
  <2> HIDE DEF dir
  <2>4. /\ incoming' \in [Ids -> DirType] /\ tmp' \in [Ids -> DirType]
        /\ \A i \in Ids : i # TaskId(c) => incoming'[i] = incoming[i]
    BY <1>1, <2>2, <2>3, OneChanges
  <2>5. FileTypes'
    BY <1>1, <1>2, <1>6, <2>4, StagingAssumption DEF FileTypes, Fault
  <2>6. \A i \in Ids \ cut' : Sound(incoming'[i]) \/ i = TaskId(c)
    BY <1>1, <1>3, <2>4
  <2> QED
    BY <1>1, <1>6, <2>5, <2>6, StayKeeps DEF Locked
<1> QED
  BY <1>5, <1>6 DEF Mark

LEMMA RemoveOneStaged ==
  ASSUME StageInv, NEW c \in Callers, RemoveOne(c)
  PROVE  StageInv'
<1> DEFINE dir == incoming[TaskId(c)]
           rests == {[dir EXCEPT !.status = "none"], [dir EXCEPT !.left = FALSE]}
                      \cup {[dir EXCEPT !.images = @ \ {f}] : f \in dir.images}
<1>1. pc[c] = "remove" /\ UNCHANGED <<tmp, lock, pc, event, told, cut, kills, errors>>
  BY DEF RemoveOne, calls
<1>2. FileTypes /\ TaskId(c) \in Ids /\ dir \in DirType
  BY <1>1, TypesNow
<1>3. PICK rest \in rests : incoming' = [incoming EXCEPT ![TaskId(c)] = rest]
  BY DEF RemoveOne
<1>4. rest \in DirType
  <2>1. \/ rest = [dir EXCEPT !.status = "none"]
        \/ rest = [dir EXCEPT !.left = FALSE]
        \/ \E f \in dir.images : rest = [dir EXCEPT !.images = dir.images \ {f}]
    BY <1>3
  <2> HIDE DEF dir
  <2>2. \A f \in dir.images : dir.images \ {f} \subseteq dir.images
    OBVIOUS
  <2>3. /\ [dir EXCEPT !.status = "none"] \in DirType
        /\ [dir EXCEPT !.left = FALSE] \in DirType
        /\ \A f \in dir.images : [dir EXCEPT !.images = dir.images \ {f}] \in DirType
    BY <1>2, <2>2, DirChanged
  <2> QED
    BY <2>1, <2>3
<1> HIDE DEF dir, rests
<1>5. /\ incoming' \in [Ids -> DirType]
      /\ \A i \in Ids : i # TaskId(c) => incoming'[i] = incoming[i]
  BY <1>1, <1>3, <1>4, OneChanges
<1>6. StepTypes'
  BY <1>1, <1>5 DEF StageInv, StepTypes
<1>7. \A d \in Callers : pc[d] # "idle" => d = c
  BY <1>1, OneAtATime DEF StageInv
<1>8. Assembled' /\ Marked'
  BY <1>1, <1>7 DEF Assembled, Marked
<1>9. Complete'
  <2> SUFFICES ASSUME NEW i \in Ids \ cut', i # TaskId(c) PROVE Sound(incoming'[i]) \/ Removing(i)
    BY <1>1, <1>7 DEF Complete, Sound, Removing, TaskId
  <2> QED
    BY <1>1, <1>5 DEF StageInv, Complete, Sound
<1> QED
  BY <1>6, <1>8, <1>9 DEF StageInv

\* What leaves the files in incoming as they are, or leaves them in the middle
\* of a removal, whose id is then in cut.
LEMMA EndStaged ==
  ASSUME StageInv, NEW c \in Callers, Removed(c) \/ Raise(c) \/ Kill(c)
  PROVE  StageInv'
<1>1. pc[c] # "idle" /\ Reject(c) /\ tmp' = tmp
  BY DEF Removed, Raise, Kill, files
<1>2. FileTypes /\ event[c] \in Events /\ TaskId(c) \in Ids /\ told \subseteq Events
      /\ incoming[TaskId(c)] \in DirType
  BY <1>1, TypesNow
<1>3. kills' \in 0 .. MaxKills /\ errors' \in 0 .. MaxErrors
  BY <1>2, StagingAssumption DEF Removed, Raise, Kill, Fault, FileTypes
<1>4. cut' \subseteq Ids /\ cut \subseteq cut' /\ (pc[c] = "remove" => TaskId(c) \in cut' \/ Removed(c))
  BY <1>2 DEF Removed, Raise, Kill, CutShort, FileTypes
<1>5. \A d \in Callers : pc[d] # "idle" => d = c
  BY <1>1, OneAtATime DEF StageInv
<1>6. \A i \in Ids \ cut' : Sound(incoming[i])
  <2> SUFFICES ASSUME NEW i \in Ids \ cut', Removing(i) PROVE Sound(incoming[i])
    BY <1>4 DEF StageInv, Complete, Sound
  <2>1. pc[c] = "remove" /\ TaskId(c) = i
    BY <1>5 DEF Removing
  <2>2. Removed(c)
    BY <1>4, <2>1
  <2> QED
    BY <2>1, <2>2 DEF Removed, Sound
<1>7. CASE UNCHANGED incoming
  <2>1. FileTypes'
    BY <1>1, <1>2, <1>3, <1>4, <1>7 DEF FileTypes
  <2> QED
    BY <1>1, <1>2, <1>6, <1>7, <2>1, LeaveKeeps DEF Reject
<1>8. CASE pc[c] = "mark" /\ incoming' = [incoming EXCEPT ![TaskId(c)].left = TRUE]
  <2> DEFINE dir == [incoming[TaskId(c)] EXCEPT !.left = TRUE]
  <2>1. /\ dir \in DirType /\ dir.images = incoming[TaskId(c)].images
        /\ dir.status = incoming[TaskId(c)].status
    BY <1>2, DirChanged
  <2>2. TaskId(c) \notin cut' => Sound(dir)
    <3>1. Occupied(incoming[TaskId(c)])
      BY <1>8 DEF StageInv, Marked
    <3> QED
      BY <1>2, <1>6, <2>1, <3>1 DEF Sound, Whole
  <2> HIDE DEF dir
  <2>3. incoming' = [incoming EXCEPT ![TaskId(c)] = dir]
    BY <1>8 DEF dir
  <2>4. /\ incoming' \in [Ids -> DirType] /\ tmp' \in [Ids -> DirType]
        /\ incoming'[TaskId(c)] = dir
        /\ \A i \in Ids : i # TaskId(c) => incoming'[i] = incoming[i]
    BY <1>1, <2>1, <2>3, OneChanges
  <2>5. FileTypes'
    BY <1>3, <1>4, <2>4 DEF FileTypes
  <2>6. \A i \in Ids \ cut' : Sound(incoming'[i])
    BY <1>6, <2>2, <2>4
  <2> QED
    BY <1>1, <1>2, <2>5, <2>6, LeaveKeeps DEF Reject
<1> QED
  BY <1>7, <1>8 DEF Removed, Raise, Kill, files

LEMMA CleanStaged ==
  ASSUME StageInv, NEW i \in Ids, Clean(i)
  PROVE  StageInv'
<1>1. UNCHANGED <<lock, pc, event, incoming, told, cut, kills, errors>>
      /\ tmp' = [tmp EXCEPT ![i] = NoDir]
      /\ \A c \in Callers : event[c] # NoEvent => TaskId(c) # i
  BY DEF Clean, calls
<1>2. StepTypes'
  BY <1>1, NoDirTyped DEF StageInv, StepTypes
<1>3. \A c \in Callers : pc[c] # "idle" => TaskId(c) # i /\ TaskId(c) \in Ids
  BY <1>1, TypesNow, StagingAssumption
<1>4. \A c \in Callers : pc[c] # "idle" => tmp'[TaskId(c)] = tmp[TaskId(c)]
  BY <1>1, <1>3 DEF StageInv, StepTypes
<1>5. Assembled'
  BY <1>1, <1>4 DEF StageInv, Assembled, TaskId
<1>6. Complete' /\ Marked'
  BY <1>1 DEF StageInv, Complete, Marked, TaskId, Removing
<1> QED
  BY <1>2, <1>5, <1>6 DEF StageInv

LEMMA StageStep == StageInv /\ [Next]_vars => StageInv'
<1> SUFFICES ASSUME StageInv, [Next]_vars PROVE StageInv'
  OBVIOUS
<1>1. CASE UNCHANGED vars
  BY <1>1 DEF vars, StageInv, StepTypes, Assembled, Complete, Marked, Removing, TaskId
<1>2. ASSUME NEW c \in Callers,
             \/ Begin(c) \/ Look(c) \/ Make(c) \/ Copy(c) \/ Describe(c) \/ Publish(c)
             \/ Mark(c) \/ RemoveOne(c) \/ Removed(c) \/ Raise(c) \/ Kill(c)
      PROVE  StageInv'
  BY <1>2, BeginStaged, LookStaged, MakeStaged, PublishStaged, MarkStaged, RemoveOneStaged, EndStaged
<1> QED
  BY <1>1, <1>2, CleanStaged DEF Next

\* StagingTypeOK, among others: what is published is complete and was marked
\* only when it was there, whatever is killed and fails (stage_event).
THEOREM StagingTypeCorrect == Spec => []StagingTypeOK
<1>1. Spec => []StageInv
  BY InitStaged, StageStep, PTL DEF Spec
<1> QED
  BY <1>1, TypeOKIs, PTL

-----------------------------------------------------------------------------
(* What is saved stays saved, when events have different ids. *)

DistinctIds == \A e, f \in Events : Id[e] = Id[f] => e = f

OwnImages(i, dir) == \A f \in dir.images : Id[f.of] = i
AllWhole(dir) == \A f \in dir.images : f.whole

\* Under an id there are images of its event only, and what is published, or
\* about to be, is whole.
Pure ==
  /\ \A i \in Ids : OwnImages(i, tmp[i]) /\ OwnImages(i, incoming[i]) /\ AllWhole(incoming[i])
  /\ \A c \in Callers : pc[c] \in {"describe", "publish"} => AllWhole(tmp[TaskId(c)])

\* Nobody marks or removes what its sender was told is saved.
Kept ==
  /\ \A e \in told : Id[e] \notin cut =>
        incoming[Id[e]].status = "saved" /\ incoming[Id[e]].images # {}
  /\ \A c \in Callers : pc[c] \in {"mark", "remove"} => event[c] \notin told \/ TaskId(c) \in cut

SaveInv == StageInv /\ Pure /\ Kept

LEMMA SavedIs ==
  ASSUME DistinctIds, SaveInv
  PROVE  SavedIsDurable
<1> SUFFICES ASSUME NEW e \in told, Id[e] \notin cut
             PROVE  LET dir == incoming[Id[e]] IN
                    /\ dir.status = "saved"
                    /\ dir.images # {}
                    /\ First(dir).whole /\ Content[First(dir).of] = Content[e]
  BY DEF SavedIsDurable
<1> DEFINE dir == incoming[Id[e]]
<1>1. e \in Events /\ Id[e] \in Ids /\ dir \in DirType /\ Name[e] \in Nat
  BY StagingAssumption DEF SaveInv, StageInv, StepTypes
<1>2. dir.status = "saved" /\ dir.images # {}
  BY DEF SaveInv, Kept
<1>3. \A f \in dir.images : f.of \in Events /\ f.whole /\ Id[f.of] = Id[e]
  BY <1>1 DEF SaveInv, Pure, OwnImages, AllWhole, DirType, FileType
<1> HIDE DEF dir
<1>4. \A f \in dir.images : f.whole /\ f.of = e
  BY <1>1, <1>3 DEF DistinctIds
<1>5. \E f \in dir.images : \A g \in dir.images : Name[f.of] <= Name[g.of]
  BY <1>1, <1>2, <1>4
<1>6. First(dir) \in dir.images
  BY <1>5 DEF First
<1> QED
  BY <1>2, <1>4, <1>6 DEF dir

LEMMA InitSaved == Init => SaveInv
<1> SUFFICES ASSUME Init PROVE SaveInv
  OBVIOUS
<1>1. NoDir.images = {}
  BY DEF NoDir
<1>2. \A i \in Ids : tmp[i].images = {} /\ incoming[i].images = {}
  BY <1>1 DEF Init
<1>3. Pure
  BY <1>2 DEF Init, Pure, OwnImages, AllWhole
<1>4. Kept
  BY DEF Init, Kept
<1> QED
  BY <1>3, <1>4, InitStaged DEF SaveInv

\* Nobody else is at work.
LEMMA Alone ==
  ASSUME StageInv, NEW c \in Callers, pc[c] # "idle",
         NEW next \in {"idle"} \cup Locked, Goto(c, next)
  PROVE  pc'[c] = next /\ \A d \in Callers : d # c => pc'[d] = "idle"
<1>1. \A d \in Callers : d # c => pc[d] = "idle"
  BY OneAtATime DEF StageInv
<1> QED
  BY <1>1 DEF Goto, StageInv, StepTypes

PureFiles ==
  \A i \in Ids : OwnImages(i, tmp[i]) /\ OwnImages(i, incoming[i]) /\ AllWhole(incoming[i])

KeptFiles ==
  \A e \in told : Id[e] \notin cut =>
    incoming[Id[e]].status = "saved" /\ incoming[Id[e]].images # {}

LEMMA LeaveSaves ==
  ASSUME SaveInv, StageInv', NEW c \in Callers, pc[c] # "idle", Leave(c), PureFiles', KeptFiles'
  PROVE  SaveInv'
<1>1. \A d \in Callers : pc'[d] = "idle"
  BY Alone DEF SaveInv, Leave
<1> QED
  BY <1>1 DEF SaveInv, Pure, Kept, PureFiles, KeptFiles

LEMMA StaySaves ==
  ASSUME SaveInv, StageInv', NEW c \in Callers, pc[c] # "idle", NEW next \in Locked, Stay(c, next),
         PureFiles', KeptFiles',
         next \in {"describe", "publish"} => AllWhole(tmp'[TaskId(c)]),
         next \in {"mark", "remove"} => event[c] \notin told' \/ TaskId(c) \in cut'
  PROVE  SaveInv'
<1>1. pc'[c] = next /\ \A d \in Callers : d # c => pc'[d] = "idle"
  BY Alone DEF SaveInv, Stay
<1>2. event' = event /\ TaskId(c)' = TaskId(c)
  BY DEF Stay, TaskId
<1>3. Pure'
  BY <1>1, <1>2 DEF Pure, PureFiles
<1>4. Kept'
  BY <1>1, <1>2 DEF Kept, KeptFiles
<1> QED
  BY <1>3, <1>4 DEF SaveInv

LEMMA FilesNow == SaveInv => PureFiles /\ KeptFiles
  BY DEF SaveInv, Pure, Kept, PureFiles, KeptFiles

LEMMA BeginSaved ==
  ASSUME SaveInv, StageInv', NEW c \in Callers, Begin(c)
  PROVE  SaveInv'
<1>1. /\ lock = Nobody /\ pc' = [pc EXCEPT ![c] = "look"]
      /\ UNCHANGED <<tmp, incoming, told, cut>>
  BY DEF Begin, Goto, files
<1>2. \A d \in Callers : pc[d] = "idle"
  BY <1>1, StagingAssumption DEF SaveInv, StageInv, StepTypes
<1>3. \A d \in Callers : pc'[d] \in {"idle", "look"}
  BY <1>1, <1>2 DEF SaveInv, StageInv, StepTypes
<1> QED
  BY <1>1, <1>3 DEF SaveInv, Pure, Kept

LEMMA LookSaved ==
  ASSUME SaveInv, StageInv', NEW c \in Callers, Look(c)
  PROVE  SaveInv'
<1>1. pc[c] = "look" /\ UNCHANGED <<tmp, incoming, cut>>
  BY DEF Look, files
<1>2. /\ event[c] \in Events /\ TaskId(c) \in Ids /\ told \subseteq Events
      /\ incoming[TaskId(c)] \in DirType
  BY <1>1, TypesNow DEF SaveInv
<1>3. PureFiles'
  BY <1>1, FilesNow DEF PureFiles
<1>4. CASE Reply(c) /\ incoming[TaskId(c)].status = "saved"
  <2>1. TaskId(c) \notin cut => Sound(incoming[TaskId(c)])
    BY <1>1, <1>2, SoundNow DEF SaveInv
  <2>2. TaskId(c) \notin cut => incoming[TaskId(c)].images # {}
    BY <1>4, <2>1 DEF Sound, Occupied, NoDir, Whole
  <2>3. KeptFiles'
    BY <1>1, <1>4, <2>2, FilesNow DEF KeptFiles, Reply, TaskId
  <2> QED
    BY <1>1, <1>3, <1>4, <2>3, LeaveSaves DEF Reply
<1>5. CASE Stay(c, "mark") /\ incoming[TaskId(c)].status # "saved"
  <2>1. KeptFiles'
    BY <1>1, <1>5, FilesNow DEF KeptFiles, Stay
  <2>2. event[c] \notin told' \/ TaskId(c) \in cut'
    BY <1>1, <1>5, FilesNow DEF KeptFiles, Stay, TaskId
  <2> QED
    BY <1>1, <1>3, <1>5, <2>1, <2>2, StaySaves DEF Locked
<1>6. CASE Stay(c, "make")
  <2>1. KeptFiles'
    BY <1>1, <1>6, FilesNow DEF KeptFiles, Stay
  <2> QED
    BY <1>1, <1>3, <1>6, <2>1, StaySaves DEF Locked
<1> QED
  BY <1>4, <1>5, <1>6 DEF Look

\* Storing the image of an event under its id leaves nothing but that image.
LEMMA StoredAlone ==
  ASSUME DistinctIds, NEW dir \in DirType, NEW e \in Events, OwnImages(Id[e], dir),
         NEW whole \in BOOLEAN
  PROVE  \A f \in Store(dir, e, whole).images : f.of = e /\ f.whole = whole
<1> DEFINE image == [of |-> e, whole |-> whole]
<1>1. \A f \in dir.images : f.of = e
  BY DEF OwnImages, DistinctIds, DirType, FileType
<1>2. Store(dir, e, whole).images = {f \in dir.images : Name[f.of] # Name[e]} \cup {image}
  BY Stored
<1>3. image.of = e /\ image.whole = whole
  OBVIOUS
<1> HIDE DEF image
<1>4. \A f \in Store(dir, e, whole).images : f = image
  BY <1>1, <1>2
<1> QED
  BY <1>3, <1>4

LEMMA MakeSaved ==
  ASSUME DistinctIds, SaveInv, StageInv', NEW c \in Callers, Make(c) \/ Copy(c) \/ Describe(c)
  PROVE  SaveInv'
<1>1. pc[c] \in {"make", "copy", "describe"} /\ UNCHANGED <<incoming, cut>>
  BY DEF Make, Copy, Describe
<1>2. /\ FileTypes /\ event[c] \in Events /\ TaskId(c) \in Ids /\ tmp[TaskId(c)] \in DirType
      /\ OwnImages(TaskId(c), tmp[TaskId(c)])
  BY <1>1, TypesNow DEF SaveInv, Pure
<1>3. ASSUME NEW dir \in DirType, tmp' = [tmp EXCEPT ![TaskId(c)] = dir],
             OwnImages(TaskId(c), dir), told' = told
      PROVE  PureFiles' /\ KeptFiles' /\ tmp'[TaskId(c)] = dir
  BY <1>1, <1>2, <1>3, FilesNow DEF FileTypes, PureFiles, KeptFiles
<1>4. ASSUME NEW whole \in BOOLEAN
      PROVE  /\ Store(tmp[TaskId(c)], event[c], whole) \in DirType
             /\ OwnImages(TaskId(c), Store(tmp[TaskId(c)], event[c], whole))
             /\ whole => AllWhole(Store(tmp[TaskId(c)], event[c], whole))
  <2>1. Store(tmp[TaskId(c)], event[c], whole) \in DirType
    BY <1>2, Stored
  <2>2. \A f \in Store(tmp[TaskId(c)], event[c], whole).images : f.of = event[c] /\ f.whole = whole
    BY <1>2, StoredAlone DEF TaskId
  <2> QED
    BY <2>1, <2>2 DEF TaskId, OwnImages, AllWhole
<1>5. CASE Make(c)
  <2> DEFINE dir == Store(tmp[TaskId(c)], event[c], FALSE)
  <2>1. dir \in DirType /\ OwnImages(TaskId(c), dir)
    BY <1>4
  <2>2. tmp' = [tmp EXCEPT ![TaskId(c)] = dir] /\ Stay(c, "copy") /\ told' = told
    BY <1>5 DEF Make, Stay
  <2> HIDE DEF dir
  <2> QED
    BY <1>1, <1>3, <2>1, <2>2, StaySaves DEF Locked
<1>6. CASE Copy(c)
  <2> DEFINE dir == Store(tmp[TaskId(c)], event[c], TRUE)
  <2>1. dir \in DirType /\ OwnImages(TaskId(c), dir) /\ AllWhole(dir)
    BY <1>4
  <2>2. tmp' = [tmp EXCEPT ![TaskId(c)] = dir] /\ Stay(c, "describe") /\ told' = told
    BY <1>6 DEF Copy, Stay
  <2> HIDE DEF dir
  <2> QED
    BY <1>1, <1>3, <2>1, <2>2, StaySaves DEF Locked
<1>7. CASE Describe(c)
  <2> DEFINE dir == [tmp[TaskId(c)] EXCEPT !.status = "accepted"]
  <2>1. dir \in DirType /\ dir.images = tmp[TaskId(c)].images
    BY <1>2, DirChanged
  <2>2. /\ tmp' = [tmp EXCEPT ![TaskId(c)] = dir] /\ pc[c] = "describe"
        /\ Stay(c, "publish") /\ told' = told
    BY <1>7 DEF Describe, Stay
  <2>3. AllWhole(tmp[TaskId(c)])
    BY <2>2 DEF SaveInv, Pure
  <2>4. OwnImages(TaskId(c), dir) /\ AllWhole(dir)
    BY <1>2, <2>1, <2>3 DEF OwnImages, AllWhole
  <2> HIDE DEF dir
  <2> QED
    BY <1>1, <1>3, <2>1, <2>2, <2>4, StaySaves DEF Locked
<1> QED
  BY <1>5, <1>6, <1>7

\* What another directory in the place of one leaves of the files.
LEMMA OneDirSaved ==
  ASSUME DistinctIds, SaveInv, NEW c \in Callers, pc[c] # "idle", NEW dir \in DirType,
         incoming' = [incoming EXCEPT ![TaskId(c)] = dir], cut' = cut,
         OwnImages(TaskId(c), dir), AllWhole(dir),
         \A i \in Ids : OwnImages(i, tmp'[i]),
         told' \subseteq told \cup {event[c]},
         event[c] \in told' =>
           TaskId(c) \in cut \/ (dir.status = "saved" /\ dir.images # {})
  PROVE  PureFiles' /\ KeptFiles'
<1>1. /\ incoming \in [Ids -> DirType] /\ event[c] \in Events /\ TaskId(c) \in Ids
      /\ told \subseteq Events
  BY TypesNow DEF SaveInv, FileTypes
<1>2. /\ incoming'[TaskId(c)] = dir
      /\ \A i \in Ids : i # TaskId(c) => incoming'[i] = incoming[i]
  BY <1>1
<1>3. PureFiles'
  BY <1>2, FilesNow DEF PureFiles
<1>4. KeptFiles'
  <2> SUFFICES ASSUME NEW e \in told', Id[e] \notin cut
               PROVE  incoming'[Id[e]].status = "saved" /\ incoming'[Id[e]].images # {}
    BY DEF KeptFiles
  <2>1. CASE e = event[c]
    BY <1>2, <2>1 DEF TaskId
  <2>2. CASE e # event[c]
    <3>1. e \in told /\ e \in Events
      BY <1>1, <2>2
    <3>2. Id[e] # TaskId(c) /\ Id[e] \in Ids
      BY <1>1, <2>2, <3>1, StagingAssumption DEF DistinctIds, TaskId
    <3> QED
      BY <1>2, <3>1, <3>2, FilesNow DEF KeptFiles
  <2> QED
    BY <2>1, <2>2
<1> QED
  BY <1>3, <1>4

LEMMA PublishSaved ==
  ASSUME DistinctIds, SaveInv, StageInv', NEW c \in Callers, Publish(c)
  PROVE  SaveInv'
<1>1. pc[c] = "publish" /\ cut' = cut /\ tmp' = [tmp EXCEPT ![TaskId(c)] = NoDir]
  BY DEF Publish
<1>2. FileTypes /\ event[c] \in Events /\ TaskId(c) \in Ids /\ tmp[TaskId(c)] \in DirType
  BY <1>1, TypesNow DEF SaveInv
<1>3. NoDir.images = {}
  BY DEF NoDir
<1>4. \A i \in Ids : OwnImages(i, tmp'[i])
  BY <1>1, <1>2, <1>3 DEF FileTypes, SaveInv, Pure, OwnImages
<1>5. CASE /\ ~Occupied(incoming[TaskId(c)])
           /\ incoming' = [incoming EXCEPT ![TaskId(c)] = tmp[TaskId(c)]]
           /\ Stay(c, "mark")
  <2>1. OwnImages(TaskId(c), tmp[TaskId(c)]) /\ AllWhole(tmp[TaskId(c)])
    BY <1>1, <1>2 DEF SaveInv, Pure
  <2>2. told' = told
    BY <1>5 DEF Stay
  <2>3. event[c] \notin told \/ TaskId(c) \in cut
    BY <1>3, <1>5, FilesNow DEF KeptFiles, Occupied, TaskId
  <2>4. PureFiles' /\ KeptFiles'
    BY <1>1, <1>2, <1>4, <1>5, <2>1, <2>2, <2>3, OneDirSaved
  <2> QED
    BY <1>1, <1>5, <2>2, <2>3, <2>4, StaySaves DEF Locked
<1>6. CASE Reject(c) /\ UNCHANGED incoming
  <2>1. PureFiles' /\ KeptFiles'
    BY <1>1, <1>4, <1>6, FilesNow DEF PureFiles, KeptFiles, Reject
  <2> QED
    BY <1>1, <1>6, <2>1, LeaveSaves DEF Reject
<1> QED
  BY <1>5, <1>6 DEF Publish

LEMMA MarkSaved ==
  ASSUME DistinctIds, SaveInv, StageInv', NEW c \in Callers, Mark(c)
  PROVE  SaveInv'
<1>1. pc[c] = "mark" /\ cut' = cut /\ tmp' = tmp
  BY DEF Mark
<1>2. /\ FileTypes /\ event[c] \in Events /\ TaskId(c) \in Ids
      /\ incoming[TaskId(c)] \in DirType
  BY <1>1, TypesNow DEF SaveInv
<1>3. /\ \A i \in Ids : OwnImages(i, tmp'[i])
      /\ OwnImages(TaskId(c), incoming[TaskId(c)]) /\ AllWhole(incoming[TaskId(c)])
  BY <1>1, <1>2 DEF SaveInv, Pure
<1>4. event[c] \notin told \/ TaskId(c) \in cut
  BY <1>1 DEF SaveInv, Kept
<1>5. CASE /\ incoming' = [incoming EXCEPT ![TaskId(c)].status = "saved", ![TaskId(c)].left = FALSE]
           /\ Reply(c)
  <2> DEFINE dir == [incoming[TaskId(c)] EXCEPT !.status = "saved", !.left = FALSE]
  <2>1. dir \in DirType /\ dir.status = "saved" /\ dir.images = incoming[TaskId(c)].images
    BY <1>2 DEF DirType
  <2>2. incoming' = [incoming EXCEPT ![TaskId(c)] = dir]
    BY <1>2, <1>5 DEF FileTypes, DirType
  <2>3. TaskId(c) \notin cut => incoming[TaskId(c)].images # {}
    BY <1>1, <1>2, SoundNow DEF SaveInv, StageInv, Marked, Sound, Whole
  <2>4. OwnImages(TaskId(c), dir) /\ AllWhole(dir)
    BY <1>3, <2>1 DEF OwnImages, AllWhole
  <2> HIDE DEF dir
  <2>5. told' = told \cup {event[c]}
    BY <1>5 DEF Reply
  <2>6. PureFiles' /\ KeptFiles'
    BY <1>1, <1>3, <2>1, <2>2, <2>3, <2>4, <2>5, OneDirSaved
  <2> QED
    BY <1>1, <1>5, <2>6, LeaveSaves DEF Reply
<1>6. CASE /\ \E left \in {incoming[TaskId(c)].left, TRUE} :
                incoming' = [incoming EXCEPT ![TaskId(c)].left = left]
           /\ Stay(c, "remove")
  <2>1. PICK left \in BOOLEAN : incoming' = [incoming EXCEPT ![TaskId(c)].left = left]
    BY <1>2, <1>6 DEF DirType
  <2> DEFINE dir == [incoming[TaskId(c)] EXCEPT !.left = left]
  <2>2. dir \in DirType /\ dir.images = incoming[TaskId(c)].images
    <3>1. dir \in DirType
      BY <1>2, DirChanged
    <3>2. dir.images = incoming[TaskId(c)].images
      BY <1>2 DEF DirType
    <3> QED
      BY <3>1, <3>2
  <2>3. incoming' = [incoming EXCEPT ![TaskId(c)] = dir]
    BY <2>1
  <2>4. OwnImages(TaskId(c), dir) /\ AllWhole(dir)
    BY <1>3, <2>2 DEF OwnImages, AllWhole
  <2> HIDE DEF dir
  <2>5. told' = told
    BY <1>6 DEF Stay
  <2>6. PureFiles' /\ KeptFiles'
    BY <1>1, <1>3, <1>4, <2>2, <2>3, <2>4, <2>5, OneDirSaved
  <2> QED
    BY <1>1, <1>4, <1>6, <2>5, <2>6, StaySaves DEF Locked
<1> QED
  BY <1>5, <1>6 DEF Mark

LEMMA RemoveOneSaved ==
  ASSUME DistinctIds, SaveInv, StageInv', NEW c \in Callers, RemoveOne(c)
  PROVE  SaveInv'
<1> DEFINE dir == incoming[TaskId(c)]
           rests == {[dir EXCEPT !.status = "none"], [dir EXCEPT !.left = FALSE]}
                      \cup {[dir EXCEPT !.images = @ \ {f}] : f \in dir.images}
<1>1. pc[c] = "remove" /\ UNCHANGED <<tmp, pc, event, told, cut>>
  BY DEF RemoveOne, calls
<1>2. /\ TaskId(c) \in Ids /\ dir \in DirType
      /\ OwnImages(TaskId(c), dir) /\ AllWhole(dir)
  BY <1>1, TypesNow DEF SaveInv, Pure
<1>3. event[c] \notin told \/ TaskId(c) \in cut
  BY <1>1 DEF SaveInv, Kept
<1>4. PICK rest \in rests : incoming' = [incoming EXCEPT ![TaskId(c)] = rest]
  BY DEF RemoveOne
<1>5. rest \in DirType /\ rest.images \subseteq dir.images
  <2>1. \/ rest = [dir EXCEPT !.status = "none"]
        \/ rest = [dir EXCEPT !.left = FALSE]
        \/ \E f \in dir.images : rest = [dir EXCEPT !.images = dir.images \ {f}]
    BY <1>4
  <2> HIDE DEF dir
  <2>2. \A f \in dir.images : dir.images \ {f} \subseteq dir.images
    OBVIOUS
  <2>3. /\ [dir EXCEPT !.status = "none"] \in DirType
        /\ [dir EXCEPT !.left = FALSE] \in DirType
        /\ \A f \in dir.images : [dir EXCEPT !.images = dir.images \ {f}] \in DirType
    BY <1>2, <2>2, DirChanged
  <2>4. /\ [dir EXCEPT !.status = "none"].images = dir.images
        /\ [dir EXCEPT !.left = FALSE].images = dir.images
        /\ \A f \in dir.images : [dir EXCEPT !.images = dir.images \ {f}].images = dir.images \ {f}
    BY <1>2 DEF DirType
  <2>5. CASE \E f \in dir.images : rest = [dir EXCEPT !.images = dir.images \ {f}]
    BY <2>2, <2>3, <2>4, <2>5
  <2> QED
    BY <2>1, <2>3, <2>4, <2>5
<1> HIDE DEF dir, rests
<1>6. OwnImages(TaskId(c), rest) /\ AllWhole(rest)
  BY <1>2, <1>5 DEF OwnImages, AllWhole
<1>7. \A i \in Ids : OwnImages(i, tmp'[i])
  BY <1>1 DEF SaveInv, Pure
<1>8. PureFiles' /\ KeptFiles'
  BY <1>1, <1>3, <1>4, <1>5, <1>6, <1>7, OneDirSaved
<1>9. \A d \in Callers : pc[d] # "idle" => d = c
  BY <1>1, OneAtATime DEF SaveInv, StageInv
<1>10. Pure'
  BY <1>1, <1>8, <1>9 DEF Pure, PureFiles
<1>11. Kept'
  BY <1>1, <1>8 DEF SaveInv, Kept, KeptFiles, TaskId
<1> QED
  BY <1>10, <1>11 DEF SaveInv

LEMMA EndSaved ==
  ASSUME DistinctIds, SaveInv, StageInv', NEW c \in Callers, Removed(c) \/ Raise(c) \/ Kill(c)
  PROVE  SaveInv'
<1>1. pc[c] # "idle" /\ Reject(c) /\ tmp' = tmp
  BY DEF Removed, Raise, Kill, files
<1>2. cut \subseteq cut' /\ (pc[c] # "remove" => cut' = cut) /\ told' = told
  BY <1>1 DEF Removed, Raise, Kill, CutShort, Reject
<1>3. CASE UNCHANGED incoming
  <2>1. PureFiles' /\ KeptFiles'
    BY <1>1, <1>2, <1>3, FilesNow DEF PureFiles, KeptFiles
  <2> QED
    BY <1>1, <2>1, LeaveSaves DEF Reject
<1>4. CASE pc[c] = "mark" /\ incoming' = [incoming EXCEPT ![TaskId(c)].left = TRUE]
  <2>1. /\ TaskId(c) \in Ids /\ incoming[TaskId(c)] \in DirType
        /\ OwnImages(TaskId(c), incoming[TaskId(c)]) /\ AllWhole(incoming[TaskId(c)])
    BY <1>1, TypesNow DEF SaveInv, Pure
  <2> DEFINE dir == [incoming[TaskId(c)] EXCEPT !.left = TRUE]
  <2>2. /\ dir \in DirType /\ dir.images = incoming[TaskId(c)].images
        /\ dir.status = incoming[TaskId(c)].status
    BY <2>1, DirChanged
  <2>3. incoming' = [incoming EXCEPT ![TaskId(c)] = dir]
    BY <1>4
  <2>4. OwnImages(TaskId(c), dir) /\ AllWhole(dir)
    BY <2>1, <2>2 DEF OwnImages, AllWhole
  <2> HIDE DEF dir
  <2>5. event[c] \notin told \/ TaskId(c) \in cut
    BY <1>4 DEF SaveInv, Kept
  <2>6. \A i \in Ids : OwnImages(i, tmp'[i])
    BY <1>1 DEF SaveInv, Pure
  <2>7. PureFiles' /\ KeptFiles'
    BY <1>1, <1>2, <1>4, <2>2, <2>3, <2>4, <2>5, <2>6, OneDirSaved
  <2> QED
    BY <1>1, <2>7, LeaveSaves DEF Reject
<1> QED
  BY <1>3, <1>4 DEF Removed, Raise, Kill, files

LEMMA CleanSaved ==
  ASSUME SaveInv, StageInv', NEW i \in Ids, Clean(i)
  PROVE  SaveInv'
<1>1. /\ UNCHANGED <<pc, event, incoming, told, cut>> /\ tmp' = [tmp EXCEPT ![i] = NoDir]
      /\ \A c \in Callers : event[c] # NoEvent => TaskId(c) # i
  BY DEF Clean, calls
<1>2. tmp \in [Ids -> DirType]
  BY DEF SaveInv, StageInv, StepTypes
<1>3. NoDir.images = {}
  BY DEF NoDir
<1>4. \A c \in Callers : pc[c] # "idle" => TaskId(c) # i /\ TaskId(c) \in Ids
  BY <1>1, TypesNow, StagingAssumption DEF SaveInv
<1>5. \A c \in Callers : pc[c] # "idle" => tmp'[TaskId(c)] = tmp[TaskId(c)]
  BY <1>1, <1>2, <1>4
<1>6. \A j \in Ids : OwnImages(j, tmp'[j])
  BY <1>1, <1>2, <1>3 DEF SaveInv, Pure, OwnImages
<1>7. Pure'
  BY <1>1, <1>5, <1>6 DEF SaveInv, Pure, TaskId
<1>8. Kept'
  BY <1>1 DEF SaveInv, Kept, TaskId
<1> QED
  BY <1>7, <1>8 DEF SaveInv

LEMMA SaveStep ==
  ASSUME DistinctIds
  PROVE  SaveInv /\ [Next]_vars => SaveInv'
<1> SUFFICES ASSUME SaveInv, [Next]_vars PROVE SaveInv'
  OBVIOUS
<1>1. StageInv'
  BY StageStep DEF SaveInv
<1>2. CASE UNCHANGED vars
  BY <1>1, <1>2 DEF vars, SaveInv, Pure, Kept, TaskId
<1>3. ASSUME NEW c \in Callers,
             \/ Begin(c) \/ Look(c) \/ Make(c) \/ Copy(c) \/ Describe(c) \/ Publish(c)
             \/ Mark(c) \/ RemoveOne(c) \/ Removed(c) \/ Raise(c) \/ Kill(c)
      PROVE  SaveInv'
  BY <1>1, <1>3, BeginSaved, LookSaved, MakeSaved, PublishSaved, MarkSaved, RemoveOneSaved, EndSaved
<1> QED
  BY <1>1, <1>2, <1>3, CleanSaved DEF Next

\* SavedIsDurable: when no two events share an id, an event whose sender was
\* told that it is saved stays saved and whole (stage_event, _existing_result).
THEOREM SavedStaysSaved ==
  ASSUME DistinctIds
  PROVE  Spec => []SavedIsDurable
<1>1. Spec => []SaveInv
  BY InitSaved, SaveStep, PTL DEF Spec
<1> QED
  BY <1>1, SavedIs, PTL

=============================================================================

-------------------------------- MODULE Staging --------------------------------
(***************************************************************************)
(* Stage-only Telegram ingress: gtx_broker/telegram_staging.py, and of     *)
(* scheduler/storage.py what it calls.  Every event is handed over by a    *)
(* process of its own, which may be killed between any two of its effects  *)
(* on the files, in the middle of a copy or of a removal; the sender then  *)
(* hands the event over again.                                             *)
(*                                                                         *)
(* One lock serializes the processes.  Everything about an event is kept   *)
(* under a task id, which is derived from it: eight digits of a hash of    *)
(* the chat, the message and the content.                                  *)
(***************************************************************************)
EXTENDS Naturals, FiniteSets

CONSTANTS
  Callers,    \* processes that run stage_event
  Events,
  Ids,
  Id,         \* [Events -> Ids], generate_task_id
  Name,       \* [Events -> Nat], its file name: the extension, by its order
  Content,    \* [Events -> the content of its image]
  Nobody, NoEvent,
  MaxKills,   \* bound on the processes killed
  MaxErrors   \* bound on the file operations that fail

VARIABLES
  lock,       \* who holds the storage lock
  tmp,        \* the directories under tmp
  incoming,   \* the directories under incoming
  pc, event,  \* the next step of a process, and its event
  told,       \* the events whose senders were told they are saved
  cut,        \* the ids whose removal was cut short (for the properties only)
  kills, errors

vars == <<lock, tmp, incoming, pc, event, told, cut, kills, errors>>
files == <<tmp, incoming>>
calls == <<lock, pc, event>>

ASSUME StagingAssumption ==
  /\ IsFiniteSet(Events)
  /\ Id \in [Events -> Ids]
  /\ Name \in [Events -> Nat]
  /\ Nobody \notin Callers
  /\ NoEvent \notin Events
  /\ MaxKills \in Nat
  /\ MaxErrors \in Nat

\* A directory: its images, by the event each was copied from, one of each
\* name; the status in its metadata; and whether an update of the metadata
\* has left its temporary file.
NoDir == [images |-> {}, status |-> "none", left |-> FALSE]
Occupied(dir) == dir # NoDir

\* input_path: the first file by name, metadata.json excepted: an image, or
\* for want of one what an update left.
HasInput(dir) == dir.images # {} \/ dir.left
First(dir) ==
  CHOOSE f \in dir.images : \A g \in dir.images : Name[f.of] <= Name[g.of]

Store(dir, e, whole) ==
  [dir EXCEPT !.images = {f \in @ : Name[f.of] # Name[e]} \cup {[of |-> e, whole |-> whole]}]

Init ==
  /\ lock = Nobody
  /\ tmp = [i \in Ids |-> NoDir]
  /\ incoming = [i \in Ids |-> NoDir]
  /\ pc = [c \in Callers |-> "idle"]
  /\ event = [c \in Callers |-> NoEvent]
  /\ told = {}
  /\ cut = {}
  /\ kills = 0
  /\ errors = 0

Goto(c, next) == pc' = [pc EXCEPT ![c] = next]
TaskId(c) == Id[event[c]]

\* The process leaves the lock and ends.
Leave(c) ==
  /\ lock' = Nobody
  /\ Goto(c, "idle")
  /\ event' = [event EXCEPT ![c] = NoEvent]

Reply(c) == Leave(c) /\ told' = told \cup {event[c]}
Reject(c) == Leave(c) /\ UNCHANGED told

Stay(c, next) == Goto(c, next) /\ UNCHANGED <<lock, event, told>>

\* A file operation fails.
Fault == errors < MaxErrors /\ errors' = errors + 1

CutShort(c) == cut' = IF pc[c] = "remove" THEN cut \cup {TaskId(c)} ELSE cut

-----------------------------------------------------------------------------
(* stage_event *)

Begin(c) ==
  /\ pc[c] = "idle"
  /\ lock = Nobody
  /\ lock' = c
  /\ \E e \in Events : event' = [event EXCEPT ![c] = e]
  /\ Goto(c, "look")
  /\ UNCHANGED <<files, told, cut, kills, errors>>

LookTrusts(c) ==   \* mutant: a record that was never marked saved is taken for saved
  /\ pc[c] = "look"
  /\ LET dir == incoming[TaskId(c)] IN
     IF dir.status # "none" /\ HasInput(dir) THEN Reply(c) ELSE Stay(c, "make")
  /\ UNCHANGED <<files, cut, kills, errors>>

\* _existing_result: a replay is answered from what is there, an incomplete
\* record is repaired, and anything else staged as if it were new.
Look(c) ==
  /\ pc[c] = "look"
  /\ LET dir == incoming[TaskId(c)] IN
     IF dir.status # "none" /\ HasInput(dir)
     THEN IF dir.status = "saved" THEN Reply(c) ELSE Stay(c, "mark")
     ELSE Stay(c, "make")
  /\ UNCHANGED <<files, cut, kills, errors>>

\* stage_input assembles the directory under tmp, where a killed process may
\* have left one: the image, in place but not yet whole, ...
Make(c) ==
  /\ pc[c] = "make"
  /\ tmp' = [tmp EXCEPT ![TaskId(c)] = Store(@, event[c], FALSE)]
  /\ Stay(c, "copy")
  /\ UNCHANGED <<incoming, cut, kills, errors>>

Copy(c) ==
  /\ pc[c] = "copy"
  /\ tmp' = [tmp EXCEPT ![TaskId(c)] = Store(@, event[c], TRUE)]
  /\ Stay(c, "describe")
  /\ UNCHANGED <<incoming, cut, kills, errors>>

\* ... its metadata, ...
Describe(c) ==
  /\ pc[c] = "describe"
  /\ tmp' = [tmp EXCEPT ![TaskId(c)].status = "accepted"]
  /\ Stay(c, "publish")
  /\ UNCHANGED <<incoming, cut, kills, errors>>

PublishEarly(c) ==   \* mutant: the directory is published before its image is whole
  /\ pc[c] = "copy"
  /\ incoming' = [incoming EXCEPT ![TaskId(c)] = tmp[TaskId(c)]]
  /\ tmp' = [tmp EXCEPT ![TaskId(c)] = NoDir]
  /\ Stay(c, "mark")
  /\ UNCHANGED <<cut, kills, errors>>

\* ... and renames it, unless there is another one that is not empty.
Publish(c) ==
  /\ pc[c] = "publish"
  /\ \/ /\ ~Occupied(incoming[TaskId(c)])
        /\ incoming' = [incoming EXCEPT ![TaskId(c)] = tmp[TaskId(c)]]
        /\ Stay(c, "mark")
        /\ UNCHANGED errors
     \/ /\ IF Occupied(incoming[TaskId(c)]) THEN UNCHANGED errors ELSE Fault
        /\ Reject(c)
        /\ UNCHANGED incoming
  /\ tmp' = [tmp EXCEPT ![TaskId(c)] = NoDir]
  /\ UNCHANGED <<cut, kills>>

MarkUnchecked(c) ==   \* mutant: a failed update goes unnoticed
  /\ pc[c] = "mark"
  /\ \/ /\ incoming' = [incoming EXCEPT ![TaskId(c)].status = "saved"]
        /\ UNCHANGED errors
     \/ Fault /\ UNCHANGED incoming
  /\ Reply(c)
  /\ UNCHANGED <<tmp, cut, kills>>

\* update_metadata writes a temporary file and renames it, or fails, before
\* or after the file is there; what could not be marked saved is removed.
Mark(c) ==
  /\ pc[c] = "mark"
  /\ \/ /\ incoming' = [incoming EXCEPT ![TaskId(c)].status = "saved", ![TaskId(c)].left = FALSE]
        /\ Reply(c)
        /\ UNCHANGED errors
     \/ /\ Fault
        /\ \E left \in {incoming[TaskId(c)].left, TRUE} :
             incoming' = [incoming EXCEPT ![TaskId(c)].left = left]
        /\ Stay(c, "remove")
  /\ UNCHANGED <<tmp, cut, kills>>

\* _remove_incomplete_publication takes the files away one by one.
RemoveOne(c) ==
  /\ pc[c] = "remove"
  /\ LET dir == incoming[TaskId(c)]
         rests == {[dir EXCEPT !.status = "none"], [dir EXCEPT !.left = FALSE]}
                    \cup {[dir EXCEPT !.images = @ \ {f}] : f \in dir.images}
     IN  \E rest \in rests \ {dir} : incoming' = [incoming EXCEPT ![TaskId(c)] = rest]
  /\ UNCHANGED <<tmp, calls, told, cut, kills, errors>>

Removed(c) ==
  /\ pc[c] = "remove"
  /\ ~Occupied(incoming[TaskId(c)])
  /\ Reject(c)
  /\ UNCHANGED <<files, cut, kills, errors>>

\* An operation whose failure ends in the handler of OSError.
Raise(c) ==
  /\ pc[c] \in {"look", "make", "copy", "describe", "remove"}
  /\ Fault
  /\ CutShort(c)
  /\ Reject(c)
  /\ UNCHANGED <<files, kills>>

\* The lock goes with the process; it may leave the temporary file.
Kill(c) ==
  /\ pc[c] # "idle"
  /\ kills < MaxKills
  /\ kills' = kills + 1
  /\ CutShort(c)
  /\ \/ UNCHANGED incoming
     \/ pc[c] = "mark" /\ incoming' = [incoming EXCEPT ![TaskId(c)].left = TRUE]
  /\ Reject(c)
  /\ UNCHANGED <<tmp, errors>>

\* cleanup_old_tasks, of what has been under tmp for days.
Clean(i) ==
  /\ \A c \in Callers : event[c] # NoEvent => TaskId(c) # i
  /\ tmp' = [tmp EXCEPT ![i] = NoDir]
  /\ UNCHANGED <<calls, incoming, told, cut, kills, errors>>

Next ==
  \/ \E c \in Callers :
       \/ Begin(c) \/ Look(c) \/ Make(c) \/ Copy(c) \/ Describe(c) \/ Publish(c)
       \/ Mark(c) \/ RemoveOne(c) \/ Removed(c) \/ Raise(c) \/ Kill(c)
  \/ \E i \in Ids : Clean(i)

Spec == Init /\ [][Next]_vars

-----------------------------------------------------------------------------
(* Properties. *)

Locked == {"look", "make", "copy", "describe", "publish", "mark", "remove"}
FileType == [of : Events, whole : BOOLEAN]
DirType == [images : SUBSET FileType, status : {"none", "accepted", "saved"}, left : BOOLEAN]

\* Types; a process that works on an event holds the lock; and a directory in
\* incoming is complete, whenever processes are killed and operations fail
\* ("Atomically stage an input file", storage.py:163), unless it is being
\* removed, or its removal was cut short.
StagingTypeOK ==
  /\ lock \in Callers \cup {Nobody}
  /\ tmp \in [Ids -> DirType]
  /\ incoming \in [Ids -> DirType]
  /\ pc \in [Callers -> {"idle"} \cup Locked]
  /\ event \in [Callers -> Events \cup {NoEvent}]
  /\ told \subseteq Events
  /\ cut \subseteq Ids
  /\ kills \in 0 .. MaxKills
  /\ errors \in 0 .. MaxErrors
  /\ \A c \in Callers : pc[c] \in Locked => lock = c /\ event[c] \in Events
  /\ \A i \in Ids \ cut :
       \/ ~Occupied(incoming[i])
       \/ incoming[i].status # "none" /\ \E f \in incoming[i].images : f.whole
       \/ \E c \in Callers : pc[c] = "remove" /\ TaskId(c) = i

\* An event whose sender was told that it is saved stays saved, whole, and
\* where the sender was told it is, whatever is handed over, killed, failed
\* and repaired later ("... deterministic replays cannot race",
\* telegram_staging.py:38).  Only for events of different ids, for images
\* that are not handed over under two extensions, and unless a removal was
\* cut short: what it leaves may be taken for an image.
SavedIsDurable ==
  \A e \in told :
    Id[e] \notin cut =>
      LET dir == incoming[Id[e]] IN
      /\ dir.status = "saved"
      /\ dir.images # {}
      /\ First(dir).whole /\ Content[First(dir).of] = Content[e]

=============================================================================

---------------------------- MODULE Daemon_proofs ----------------------------
(***************************************************************************)
(* Proofs about the daemon with its two stores, for every set of tasks,    *)
(* staged inputs, crash points and failing calls.  A kill, a restart and   *)
(* the recovery are steps like any other here: each is a transaction of    *)
(* the scheduler's store or leaves it alone, so what is proved of the      *)
(* store survives them.                                                    *)
(***************************************************************************)
EXTENDS Daemon, Scheduler_proofs

(***************************************************************************)
(* The daemon's program counter: whenever it works on a task the task is   *)
(* one, and a method of the scheduler that is running or is to follow has  *)
(* a state to write.                                                       *)
(***************************************************************************)
InputSteps == InputCalls \cup {"toIncoming", "release", "toProcessed", "markProcessed"}

CallInv ==
  /\ at \in PCs
  /\ then \in DBCalls \cup InputCalls \cup {"idle"}
  /\ at \notin {"idle", "down"} => task \in Tasks
  /\ goal \in DOMAIN OutcomeOf \cup {"none"}
  /\ at \notin InputSteps \cup {"idle", "down"} => goal \in DOMAIN OutcomeOf
  /\ then \in DBCalls => goal \in DOMAIN OutcomeOf
  /\ at \in {"idle", "down"} => then = "idle"

\* The states a method of the scheduler is asked for are states it may write.
LEMMA GoalsAreWritten == DOMAIN OutcomeOf \subseteq WrittenStates
  BY DEF OutcomeOf, WrittenStates

\* The daemon's own steps keep CallInv.
LEMMA AdvanceKeepsCall == ASSUME CallInv, Advance PROVE CallInv'
<1> USE DEF CallInv, PCs, DBCalls, InputCalls, InputSteps, OutcomeOf
<1>1. CASE RejectManifest \/ Requeue \/ Complete \/ Suspend
  BY <1>1 DEF RejectManifest, Requeue, Complete, Suspend, Goto, GiveUp
<1>2. CASE ClaimInput \/ ClaimWrite \/ \E w \in Workers : Start(w)
  BY <1>2 DEF ClaimInput, ClaimWrite, Start, Goto
<1>3. CASE StartRefused
  BY <1>3 DEF StartRefused, Call
<1>4. ASSUME NEW s \in DOMAIN OutcomeOf, HandlerReturns(s)
      PROVE  CallInv'
  BY <1>4 DEF HandlerReturns, Call, Finish
<1>5. CASE RequeueWrite \/ CompleteWrite \/ CloseAll \/ Close \/ ToIncoming \/ ToProcessed
  BY <1>5 DEF RequeueWrite, CompleteWrite, CloseAll, Close, ToIncoming, ToProcessed, Goto
<1>6. CASE RecordReady \/ SuspendWrite \/ ReleaseInput \/ MarkProcessed
  BY <1>6 DEF RecordReady, SuspendWrite, ReleaseInput, MarkProcessed, Proceed
<1>7. CASE RequeueInput \/ CompleteInput
  BY <1>7 DEF RequeueInput, CompleteInput, Goto, Proceed, GiveUp
<1> QED
  BY <1>1, <1>2, <1>3, <1>4, <1>5, <1>6, <1>7 DEF Advance

\* So do a restart and the visits of the recovery.
LEMMA RecoverKeepsCall == ASSUME CallInv, Recover PROVE CallInv'
<1> USE DaemonAssumption DEF CallInv, PCs, DBCalls, InputCalls, InputSteps, OutcomeOf
<1>1. CASE Restart
  BY <1>1 DEF Restart
<1>2. ASSUME NEW t \in Inputs, RecoverTorn(t)
      PROVE  CallInv'
  BY <1>2 DEF RecoverTorn, Die, Visit
<1>3. ASSUME NEW t \in Inputs, RecoverRetry(t) \/ RecoverInFlight(t)
      PROVE  CallInv'
  BY <1>3 DEF RecoverRetry, RecoverInFlight, Call, ToRetry
<1>4. ASSUME NEW t \in Inputs, RecoverResult(t)
      PROVE  CallInv'
  BY <1>4 DEF RecoverResult, Call, Finish
<1>5. ASSUME NEW t \in Inputs, RecoverInput(t)
      PROVE  CallInv'
  BY <1>5 DEF RecoverInput, Call
<1> QED
  BY <1>1, <1>2, <1>3, <1>4, <1>5 DEF Recover

\* The rest: polling, kills, failing calls, and the other processes.
LEMMA OthersKeepCall ==
  ASSUME CallInv, Poll \/ Crash \/ CallFails \/ Ingress
                  \/ (\E t \in Inputs : Cleanup(t)) \/ (\E t \in Tasks : Cancel(t))
  PROVE  CallInv'
<1> USE DEF CallInv, PCs, DBCalls, InputCalls, InputSteps, OutcomeOf
<1>1. ASSUME NEW t \in Tasks, Claim(t)
      PROVE  CallInv'
  BY <1>1 DEF Claim, Call
<1>2. CASE Crash \/ CallFails
  BY <1>2 DEF Crash, CallFails, Die, GiveUp
<1>3. CASE UNCHANGED <<at, task, goal, then>>
  BY <1>3
<1>4. Poll => UNCHANGED <<at, task, goal, then>> \/ \E t \in Tasks : Claim(t)
  BY DEF Poll, Sleep, Promote, vars, daemonVars
<1>5. Ingress => UNCHANGED <<at, task, goal, then>>
  BY DEF Ingress, Stage, Enqueue, RejectImage, MarkRead, MarkWrite, CancelRejected,
         IngestTo, reviewVars, daemonVars
<1>6. ASSUME NEW t, Cleanup(t) \/ Cancel(t)
      PROVE  UNCHANGED <<at, task, goal, then>>
  BY <1>6 DEF Cleanup, Cancel, daemonVars
<1> QED
  BY <1>1, <1>2, <1>3, <1>4, <1>5, <1>6

\* A review moves neither the daemon nor the ingress, and its decisions are
\* transactions of the store.
LEMMA ReviewMoves ==
  ASSUME Review
  PROVE  UNCHANGED <<daemonVars, ingest, seen, dir>> /\ [StoreNext]_dbVars
<1> USE DaemonAssumption DEF DBOnly, InputOnly, storageVars
<1>1. {"succeeded", "failed_terminal"} \subseteq WrittenStates
  BY DEF WrittenStates
<1>2. ASSUME NEW t \in Reviewed, ReviewRead(t) \/ ReviewWrite(t) \/ ReviewGivesUp(t)
      PROVE  UNCHANGED <<daemonVars, ingest, seen, dir>> /\ [StoreNext]_dbVars
  BY <1>2 DEF ReviewRead, ReviewWrite, ReviewGivesUp
<1>3. ASSUME NEW t \in Reviewed, NEW decision \in {"approved", "rejected"}, Decide(t, decision)
      PROVE  UNCHANGED <<daemonVars, ingest, seen, dir>> /\ [StoreNext]_dbVars
  <2>1. WriteState(t, "succeeded") \/ WriteState(t, "failed_terminal")
    BY <1>3 DEF Decide, ApproveAwaitingReview
  <2> QED
    BY <1>1, <1>3, <2>1 DEF Decide, StoreNext
<1> QED
  BY <1>2, <1>3 DEF Review

(***************************************************************************)
(* Wherever it is killed, the daemon never calls a method of the scheduler *)
(* without a task and a state to write.                                    *)
(***************************************************************************)
THEOREM CallsAreWellFormed == Spec => []CallInv
<1>1. Init => CallInv
  BY DEF Init, CallInv, PCs, DBCalls, InputCalls, OutcomeOf
<1>2. CallInv /\ UNCHANGED vars => CallInv'
  BY DEF vars, daemonVars, CallInv
<1>3. CallInv /\ Review => CallInv'
  BY ReviewMoves DEF daemonVars, CallInv
<1>4. CallInv /\ [Next]_vars => CallInv'
  BY <1>2, <1>3, AdvanceKeepsCall, RecoverKeepsCall, OthersKeepCall DEF Next
<1> QED
  BY <1>1, <1>4, PTL DEF Spec

-----------------------------------------------------------------------------
\* What each of the daemon's steps does to the scheduler's store.
LEMMA AdvanceStoreStep == ASSUME CallInv, Advance PROVE [StoreNext]_dbVars
<1>1. CASE RejectManifest
  <2>1. task \in Tasks /\ "failed_terminal" \in WrittenStates
    BY <1>1 DEF CallInv, RejectManifest, WrittenStates
  <2> QED
    BY <1>1, <2>1 DEF RejectManifest, FailClaimedTask, StoreNext
<1>2. ASSUME NEW w \in Workers, Start(w)
      PROVE  [StoreNext]_dbVars
  <2>1. task \in Tasks
    BY <1>2 DEF CallInv, Start
  <2> QED
    BY <1>2, <2>1 DEF Start, StoreNext
<1>3. CASE RequeueWrite
  <2>1. task \in Tasks /\ "retry_wait" \in WrittenStates
    BY <1>3 DEF CallInv, RequeueWrite, WrittenStates
  <2> QED
    BY <1>3, <2>1 DEF RequeueWrite, StoreNext
<1>4. CASE CompleteWrite \/ SuspendWrite
  <2>1. task \in Tasks /\ goal \in DOMAIN OutcomeOf
    BY <1>4 DEF CallInv, InputSteps, InputCalls, CompleteWrite, SuspendWrite
  <2> QED
    BY <1>4, <2>1, GoalsAreWritten DEF CompleteWrite, SuspendWrite, StoreNext
<1>5. CASE CloseAll \/ Close
  <2>1. task \in Tasks
    BY <1>5 DEF CallInv, CloseAll, Close
  <2> QED
    BY <1>5, <2>1 DEF CloseAll, Close, StoreNext
<1>6. CASE RecordReady
  BY <1>6 DEF RecordReady, StoreNext
<1>7. CASE \/ ClaimInput \/ ClaimWrite \/ StartRefused \/ Requeue \/ Complete \/ Suspend
           \/ RequeueInput \/ ToIncoming \/ ReleaseInput
           \/ CompleteInput \/ ToProcessed \/ MarkProcessed
  BY <1>7 DEF ClaimInput, ClaimWrite, StartRefused, Requeue, Complete, Suspend,
              RequeueInput, ToIncoming, ReleaseInput, CompleteInput, ToProcessed,
              MarkProcessed, InputOnly
<1>8. ASSUME NEW s, HandlerReturns(s)
      PROVE  [StoreNext]_dbVars
  BY <1>8 DEF HandlerReturns
<1> QED
  BY <1>1, <1>2, <1>3, <1>4, <1>5, <1>6, <1>7, <1>8 DEF Advance

\* Recovery only reads the scheduler; the methods it calls are Advance's.
LEMMA RecoverStoreStep == ASSUME Recover PROVE UNCHANGED dbVars
  BY DEF Recover, Restart, RecoverTorn, RecoverRetry, RecoverResult, RecoverInFlight,
         RecoverInput

\* The others run whole transactions or none.
LEMMA OthersStoreStep ==
  ASSUME Poll \/ Crash \/ CallFails \/ Ingress
         \/ (\E t \in Inputs : Cleanup(t)) \/ (\E t \in Tasks : Cancel(t))
  PROVE  [StoreNext]_dbVars
<1>1. "queued" \in WrittenStates
  BY DEF WrittenStates
<1>2. CASE Poll
  BY <1>1, <1>2 DEF Poll, Sleep, Claim, Promote, StoreNext, vars
<1>3. CASE Crash \/ CallFails
  BY <1>3 DEF Crash, CallFails, InputOnly
<1>4. ASSUME NEW t \in Tasks, Enqueue(t) \/ CancelRejected(t) \/ Cancel(t)
      PROVE  [StoreNext]_dbVars
  BY <1>1, <1>4 DEF Enqueue, AddTask, CancelRejected, Cancel, StoreNext
<1>5. ASSUME NEW t, Stage(t) \/ RejectImage(t) \/ MarkRead(t) \/ MarkWrite(t)
                    \/ Cleanup(t)
      PROVE  UNCHANGED dbVars
  BY <1>5 DEF Stage, RejectImage, MarkRead, MarkWrite, Cleanup, InputOnly
<1> QED
  BY <1>2, <1>3, <1>4, <1>5 DEF Ingress

(***************************************************************************)
(* The daemon, killed and restarted at will, implements the store.         *)
(***************************************************************************)
THEOREM DaemonImplementsStore == Spec => StoreSpec
<1>1. Init => DBInit
  BY DEF Init
<1>2. CallInv /\ UNCHANGED vars => [StoreNext]_dbVars
  BY DEF vars
<1>3. CallInv /\ [Next]_vars => [StoreNext]_dbVars
  BY <1>2, AdvanceStoreStep, RecoverStoreStep, OthersStoreStep, ReviewMoves DEF Next
<1> QED
  BY <1>1, <1>3, CallsAreWellFormed, PTL DEF Spec, StoreSpec

\* No crash or recovery lets two running tasks hold the P40: the tasks a kill
\* leaves running still count as conflicts after the restart.
THEOREM DaemonExclusion == Spec => []ResourceExclusion
  BY DaemonImplementsStore, StoreExclusion, PTL

-----------------------------------------------------------------------------
(* Types. *)

\* The ingress marks and rejects only what it has staged.
IngressOnly == \A t \in Tasks :
  ingest[t] \in {"added", "marking", "cancel", "reject", "rejecting"} => t \in IngressTasks

ReviewSteps == {"none", "read", "noted", "approved", "rejected"}

IngestSteps == {"new", "staged", "added", "marking", "cancel", "reject", "rejecting", "done"}

FilesTyped ==
  /\ StorageTypeOK
  /\ task \in Tasks \cup {NoTask}
  /\ todo \subseteq Inputs
  /\ crashes \in 0..MaxCrashes
  /\ ingest \in [Tasks -> IngestSteps]
  /\ seen \in [Inputs -> Dirs \X Outcomes]
  /\ review \in [Inputs -> ReviewSteps]
  /\ noted \in [Inputs -> Dirs \X Statuses \X Outcomes]
  /\ IngressOnly

\* A call of the daemon on the inputs.
FileCall(t) ==
  \/ \E d \in Dirs : Move(t, d)
  \/ \E s \in Statuses : SetStatus(t, s)
  \/ \E o \in Outcomes : SetOutcome(t, o)
  \/ Release(t) \/ Tear(t)
  \/ /\ status' = [status EXCEPT ![t] = "processed"]
     /\ \E o \in Outcomes : outcome' = [outcome EXCEPT ![t] = o] \/ UNCHANGED outcome
     /\ UNCHANGED <<dir, torn>>
  \/ UNCHANGED storageVars

LEMMA FileCallTyped ==
  ASSUME StorageTypeOK, NEW t, FileCall(t)
  PROVE  StorageTypeOK'
<1>1. CASE \/ \E d \in Dirs : Move(t, d)
           \/ \E s \in Statuses : SetStatus(t, s)
           \/ \E o \in Outcomes : SetOutcome(t, o)
  BY <1>1 DEF StorageTypeOK, Move, SetStatus, SetOutcome
<1>2. CASE Release(t) \/ Tear(t) \/ UNCHANGED storageVars
  BY <1>2 DEF StorageTypeOK, Release, Tear, storageVars, Statuses, Outcomes
<1>3. CASE /\ status' = [status EXCEPT ![t] = "processed"]
           /\ \E o \in Outcomes : outcome' = [outcome EXCEPT ![t] = o] \/ UNCHANGED outcome
           /\ UNCHANGED <<dir, torn>>
  BY <1>3 DEF StorageTypeOK, Statuses
<1> QED
  BY <1>1, <1>2, <1>3 DEF FileCall

\* What the daemon does between two calls: it never adds to its list of inputs.
LEMMA AdvanceMoves ==
  ASSUME Advance
  PROVE  todo' \subseteq todo /\ UNCHANGED <<task, crashes, clientVars>>
<1> USE DEF Goto, Call, Proceed, GiveUp, Return, clientVars
<1>1. CASE RejectManifest \/ Requeue \/ Complete \/ Suspend
  BY <1>1 DEF RejectManifest, Requeue, Complete, Suspend
<1>2. CASE ClaimInput \/ ClaimWrite \/ StartRefused
  BY <1>2 DEF ClaimInput, ClaimWrite, StartRefused
<1>3. ASSUME NEW w, Start(w) PROVE todo' \subseteq todo /\ UNCHANGED <<task, crashes, clientVars>>
  BY <1>3 DEF Start
<1>4. ASSUME NEW s, HandlerReturns(s)
      PROVE  todo' \subseteq todo /\ UNCHANGED <<task, crashes, clientVars>>
  BY <1>4 DEF HandlerReturns
<1>5. CASE RequeueWrite \/ CompleteWrite \/ CloseAll \/ Close \/ ToIncoming \/ ToProcessed
  BY <1>5 DEF RequeueWrite, CompleteWrite, CloseAll, Close, ToIncoming, ToProcessed
<1>6. CASE RecordReady \/ SuspendWrite \/ ReleaseInput \/ MarkProcessed
  BY <1>6 DEF RecordReady, SuspendWrite, ReleaseInput, MarkProcessed
<1>7. CASE RequeueInput \/ CompleteInput
  BY <1>7 DEF RequeueInput, CompleteInput
<1> QED
  BY <1>1, <1>2, <1>3, <1>4, <1>5, <1>6, <1>7 DEF Advance

\* Its steps on the inputs are single file-system calls.
LEMMA AdvanceFiles == ASSUME Advance PROVE FileCall(task)
<1> USE DEF FileCall, Dirs, Statuses, Outcomes, OutcomeOf
<1>1. CASE \/ RejectManifest \/ StartRefused \/ (\E w \in Workers : Start(w))
           \/ (\E s \in DOMAIN OutcomeOf : HandlerReturns(s))
           \/ Requeue \/ RequeueWrite \/ RecordReady
           \/ Complete \/ CompleteWrite \/ CloseAll
           \/ Suspend \/ Close \/ SuspendWrite
  BY <1>1 DEF RejectManifest, StartRefused, Start, HandlerReturns, Requeue, RequeueWrite,
              RecordReady, Complete, CompleteWrite, CloseAll, Suspend, Close, SuspendWrite,
              DBOnly
<1>2. CASE ClaimInput \/ ClaimWrite
  BY <1>2 DEF ClaimInput, ClaimWrite
<1>3. CASE ToIncoming \/ ReleaseInput \/ ToProcessed \/ MarkProcessed
  BY <1>3 DEF ToIncoming, ReleaseInput, ToProcessed, MarkProcessed
<1>4. CASE RequeueInput
  BY <1>4 DEF RequeueInput
<1>5. CASE CompleteInput
  BY <1>5 DEF CompleteInput
<1> QED
  BY <1>1, <1>2, <1>3, <1>4, <1>5 DEF Advance

\* What recovery, polling, a kill or a failing call does, beside the store.
LEMMA RecoverTyped == ASSUME FilesTyped, Recover PROVE FilesTyped'
<1>1. UNCHANGED <<storageVars, crashes, clientVars>>
  BY DEF Recover, Restart, RecoverTorn, RecoverRetry, RecoverResult, RecoverInFlight,
         RecoverInput, Die, Call, clientVars
<1>2. todo' \subseteq Inputs /\ task' \in Tasks \cup {NoTask}
  BY DaemonAssumption
  DEF FilesTyped, Recover, Restart, RecoverTorn, RecoverRetry, RecoverResult,
         RecoverInFlight, RecoverInput, Die, Call
<1> QED
  BY <1>1, <1>2 DEF FilesTyped, IngressOnly, StorageTypeOK, storageVars, clientVars

LEMMA OthersTyped ==
  ASSUME FilesTyped, Poll \/ Crash \/ CallFails \/ \E t \in Inputs : Cleanup(t)
  PROVE  FilesTyped'
<1> USE DaemonAssumption
<1>1. UNCHANGED clientVars
  BY DEF Poll, Sleep, Claim, Promote, Crash, CallFails, Cleanup, Die, GiveUp, Call, vars,
         clientVars
<1>2. \E t : FileCall(t)
  BY DEF Poll, Sleep, Claim, Promote, Crash, CallFails, Cleanup, FileCall, DBOnly, vars, Dirs
<1>3. todo' \subseteq Inputs /\ crashes' \in 0..MaxCrashes /\ task' \in Tasks \cup {NoTask}
  BY DEF FilesTyped, Poll, Sleep, Claim, Promote, Crash, CallFails, Cleanup, Die, GiveUp, Call,
         Return, vars, daemonVars
<1> QED
  BY <1>1, <1>2, <1>3, FileCallTyped DEF FilesTyped, IngressOnly, clientVars

LEMMA IngressTyped ==
  ASSUME FilesTyped, Ingress \/ \E t \in Tasks : Cancel(t)
  PROVE  FilesTyped'
<1> USE DaemonAssumption DEF FilesTyped, IngressOnly, IngestSteps
<1>1. UNCHANGED daemonVars
  BY DEF Ingress, Stage, Enqueue, RejectImage, MarkRead, MarkWrite, CancelRejected, Cancel,
         IngestTo, reviewVars
<1>2. ASSUME NEW t \in Tasks, Cancel(t) PROVE FilesTyped'
  BY <1>2 DEF Cancel, StorageTypeOK, storageVars, daemonVars, clientVars
<1>3. ASSUME NEW t \in Tasks, Stage(t) PROVE FilesTyped'
  BY <1>1, <1>3 DEF Stage, StageInput, StorageTypeOK, Dirs, Statuses, Outcomes, IngestTo,
     reviewVars, daemonVars
<1>4. ASSUME NEW t \in Tasks, Enqueue(t) \/ RejectImage(t) \/ CancelRejected(t) PROVE FilesTyped'
  BY <1>1, <1>4 DEF Enqueue, RejectImage, CancelRejected, StorageTypeOK, storageVars, IngestTo,
     reviewVars,
                    DBOnly, daemonVars
<1>5. ASSUME NEW t \in Tasks, MarkRead(t) PROVE FilesTyped'
  <2>1. UNCHANGED <<reviewVars, storageVars>> /\ t \in IngressTasks
    BY <1>5 DEF MarkRead
  <2>2. /\ \/ UNCHANGED seen
           \/ seen' = [seen EXCEPT ![t] = <<dir[t], outcome[t]>>]
        /\ \E pc \in {"marking", "rejecting", "cancel", "done"} :
             ingest' = [ingest EXCEPT ![t] = pc]
    BY <1>5 DEF MarkRead, Unmarked
  <2>3. seen' \in [Inputs -> Dirs \X Outcomes]
    BY <2>1, <2>2 DEF StorageTypeOK
  <2> QED
    BY <1>1, <2>1, <2>2, <2>3 DEF StorageTypeOK, storageVars, daemonVars, reviewVars
<1>6. ASSUME NEW t \in Tasks, MarkWrite(t) PROVE FilesTyped'
  <2>1. t \in Inputs /\ seen[t][2] \in Outcomes /\ UNCHANGED seen
    BY <1>6 DEF MarkWrite, IngestTo, reviewVars
  <2>2. StorageTypeOK'
    BY <1>6, <2>1 DEF MarkWrite, StorageTypeOK, storageVars, Statuses
  <2>3. ingest' \in [Tasks -> IngestSteps] /\ IngressOnly'
    BY <1>6 DEF MarkWrite, IngestTo, Unmarked
  <2>4. UNCHANGED reviewVars
    BY <1>6 DEF MarkWrite, IngestTo
  <2> QED
    BY <1>1, <2>1, <2>2, <2>3, <2>4 DEF daemonVars, reviewVars
<1> QED
  BY <1>2, <1>3, <1>4, <1>5, <1>6 DEF Ingress

LEMMA ReviewTyped == ASSUME FilesTyped, Review PROVE FilesTyped'
<1> USE DaemonAssumption DEF FilesTyped, IngressOnly, StorageTypeOK, ReviewSteps
<1>1. UNCHANGED <<daemonVars, ingest, seen>>
  BY ReviewMoves
<1>2. ASSUME NEW t \in Reviewed, ReviewRead(t)
      PROVE  FilesTyped'
  BY <1>1, <1>2 DEF ReviewRead, storageVars, daemonVars
<1>3. ASSUME NEW t \in Reviewed, ReviewWrite(t)
      PROVE  FilesTyped'
  BY <1>1, <1>3 DEF ReviewWrite, daemonVars
<1>4. ASSUME NEW t \in Reviewed, ReviewGivesUp(t)
      PROVE  FilesTyped'
  BY <1>1, <1>4 DEF ReviewGivesUp, storageVars, daemonVars
<1>5. ASSUME NEW t \in Reviewed, NEW decision \in {"approved", "rejected"}, Decide(t, decision)
      PROVE  FilesTyped'
  BY <1>1, <1>5 DEF Decide, DBOnly, storageVars, daemonVars
<1> QED
  BY <1>2, <1>3, <1>4, <1>5 DEF Review

LEMMA StepFilesTyped == FilesTyped /\ [Next]_vars => FilesTyped'
<1> SUFFICES ASSUME FilesTyped, [Next]_vars PROVE FilesTyped'
  OBVIOUS
<1>1. CASE Advance
  BY <1>1, AdvanceMoves, AdvanceFiles, FileCallTyped
  DEF FilesTyped, IngressOnly, clientVars
<1>2. CASE UNCHANGED vars
  BY <1>2 DEF vars, daemonVars, storageVars, clientVars, FilesTyped, IngressOnly, StorageTypeOK
<1> QED
  BY <1>1, <1>2, RecoverTyped, OthersTyped, IngressTyped, ReviewTyped DEF Next

\* Both stores and the locals of the daemon and of the ingress keep their types.
THEOREM DaemonTypeCorrect == Spec => []DaemonTypeOK
<1>1. Init => FilesTyped
  BY DaemonAssumption
  DEF Init, StorageInit, FilesTyped, StorageTypeOK, IngressOnly, IngestSteps, ReviewSteps, Dirs,
      Statuses, Outcomes
<1>2. Spec => []FilesTyped
  BY <1>1, StepFilesTyped, PTL DEF Spec
<1>3. Spec => []DBTypeOK
  BY DaemonImplementsStore, StoreTypeCorrect, PTL
<1>4. CallInv /\ FilesTyped /\ DBTypeOK => DaemonTypeOK
  BY DEF CallInv, FilesTyped, DaemonTypeOK, IngestSteps, ReviewSteps
<1> QED
  BY <1>2, <1>3, <1>4, CallsAreWellFormed, PTL

-----------------------------------------------------------------------------
(***************************************************************************)
(* Which method may run with which state to write, and what follows it: a  *)
(* claim is undone or a started task given back with "retry_wait", and an  *)
(* input is settled with the result the scheduler is told next, or, if the *)
(* scheduler was settled before the kill, without one.                     *)
(***************************************************************************)
Undoing == {"requeue", "requeueWrite"}
Completing == {"complete", "completeWrite"}
Suspending == {"suspend", "close", "suspendWrite"}
GivingBack == {"requeueInput", "toIncoming", "release"}
Settling == {"completeInput", "toProcessed", "markProcessed"}

MethodInv ==
  /\ at \in {"claimed", "claimWrite", "start", "running"} => goal = "retry_wait" /\ then = "idle"
  /\ at \in Undoing \/ then = "requeue" => goal = "retry_wait"
  /\ at \in Completing \cup {"closeAll"} =>
       goal \in {"succeeded", "failed_terminal"} /\ then = "idle"
  /\ at \in Suspending => goal \in {"retry_wait", "awaiting_review"}
  /\ at = "recordReady" => goal \in {"retry_wait", "succeeded", "failed_terminal"}
  /\ at \in Undoing \cup Suspending \cup {"recordReady"} =>
       then = "idle" \/ (then = "requeueInput" /\ goal = "retry_wait")
  /\ at \in GivingBack => \/ then = "idle" /\ goal \in {"retry_wait", "none"}
                          \/ then \in {"requeue", "suspend"} /\ goal = "retry_wait"
  /\ at \in Settling => \/ then = "idle" /\ goal = "none"
                        \/ then = "complete" /\ goal \in {"succeeded", "failed_terminal"}
                        \/ then = "suspend" /\ goal = "awaiting_review"
  /\ at \in InputSteps \cup {"claimWrite"} \/ then = "requeueInput" => task \in Inputs

LEMMA AdvanceKeepsMethod == ASSUME CallInv, MethodInv, Advance PROVE MethodInv'
<1> USE DEF MethodInv, Undoing, Completing, Suspending, GivingBack, Settling, InputSteps,
            InputCalls
<1>1. CASE RejectManifest \/ Requeue \/ Complete \/ Suspend
  BY <1>1 DEF RejectManifest, Requeue, Complete, Suspend, Goto, GiveUp
<1>2. CASE ClaimInput \/ ClaimWrite \/ \E w \in Workers : Start(w)
  BY <1>2 DEF ClaimInput, ClaimWrite, Start, Goto
<1>3. CASE StartRefused
  BY <1>3 DEF StartRefused, Call
<1>4. ASSUME NEW s \in DOMAIN OutcomeOf, HandlerReturns(s)
      PROVE  MethodInv'
  BY <1>4 DEF HandlerReturns, Call, Finish, OutcomeOf
<1>5. CASE RequeueWrite \/ CompleteWrite \/ CloseAll \/ Close \/ ToIncoming \/ ToProcessed
  BY <1>5 DEF RequeueWrite, CompleteWrite, CloseAll, Close, ToIncoming, ToProcessed, Goto
<1>6. CASE RecordReady \/ SuspendWrite \/ ReleaseInput \/ MarkProcessed
  BY <1>6 DEF RecordReady, SuspendWrite, ReleaseInput, MarkProcessed, Proceed
<1>7. CASE RequeueInput \/ CompleteInput
  BY <1>7 DEF RequeueInput, CompleteInput, Goto, Proceed, GiveUp
<1> QED
  BY <1>1, <1>2, <1>3, <1>4, <1>5, <1>6, <1>7 DEF Advance

LEMMA RecoverKeepsMethod == ASSUME CallInv, MethodInv, Recover PROVE MethodInv'
<1> USE DEF MethodInv, Undoing, Completing, Suspending, GivingBack, Settling, InputSteps,
            InputCalls
<1>1. CASE Restart
  BY <1>1 DEF Restart, CallInv
<1>2. ASSUME NEW t \in Inputs, RecoverTorn(t)
      PROVE  MethodInv'
  BY <1>2 DEF RecoverTorn, Die, Visit
<1>3. ASSUME NEW t \in Inputs, RecoverRetry(t) \/ RecoverInFlight(t)
      PROVE  MethodInv'
  BY <1>3 DEF RecoverRetry, RecoverInFlight, Call, ToRetry
<1>4. ASSUME NEW t \in Inputs, RecoverResult(t)
      PROVE  MethodInv'
  BY <1>4 DEF RecoverResult, Call, Finish
<1>5. ASSUME NEW t \in Inputs, RecoverInput(t)
      PROVE  MethodInv'
  BY <1>5 DEF RecoverInput, Call
<1> QED
  BY <1>1, <1>2, <1>3, <1>4, <1>5 DEF Recover

\* Only a claim calls a method among the other steps.
LEMMA OthersCall ==
  ASSUME Poll \/ Crash \/ CallFails \/ Ingress
         \/ (\E t \in Inputs : Cleanup(t)) \/ (\E t \in Tasks : Cancel(t))
  PROVE  \/ \E t \in Tasks : Claim(t)
         \/ at' \in {"idle", "down"} /\ then' = "idle"
         \/ UNCHANGED <<at, task, goal, then>>
<1>1. CASE Crash \/ CallFails
  BY <1>1 DEF Crash, CallFails, Die, GiveUp
<1>2. CASE Poll
  BY <1>2 DEF Poll, Sleep, Promote, vars, daemonVars
<1>3. CASE Ingress
  BY <1>3 DEF Ingress, Stage, Enqueue, RejectImage, MarkRead, MarkWrite, CancelRejected,
              IngestTo, reviewVars, daemonVars
<1>4. ASSUME NEW t, Cleanup(t) \/ Cancel(t)
      PROVE  UNCHANGED <<at, task, goal, then>>
  BY <1>4 DEF Cleanup, Cancel, daemonVars
<1> QED
  BY <1>1, <1>2, <1>3, <1>4

LEMMA StepKeepsMethod == ASSUME CallInv, MethodInv, [Next]_vars PROVE MethodInv'
<1> DEFINE others == \/ Poll \/ Crash \/ CallFails \/ Ingress
                     \/ \E t \in Inputs : Cleanup(t)
                     \/ \E t \in Tasks : Cancel(t)
<1>1. ASSUME NEW t \in Tasks, Claim(t) PROVE MethodInv'
  BY <1>1 DEF Claim, Call, MethodInv, Undoing, Completing, Suspending, GivingBack, Settling,
              InputSteps, InputCalls
<1>2. CASE at' \in {"idle", "down"} /\ then' = "idle"
  BY <1>2 DEF MethodInv, Undoing, Completing, Suspending, GivingBack, Settling, InputSteps,
              InputCalls
<1>3. CASE UNCHANGED <<at, task, goal, then>>
  BY <1>3 DEF MethodInv
<1>4. CASE others
  BY <1>1, <1>2, <1>3, <1>4, OthersCall
<1>5. UNCHANGED vars \/ Review => UNCHANGED <<at, task, goal, then>>
  BY ReviewMoves DEF vars, daemonVars
<1> QED
  BY <1>3, <1>4, <1>5, AdvanceKeepsMethod, RecoverKeepsMethod DEF Next

-----------------------------------------------------------------------------
(***************************************************************************)
(* The state of the task at hand.  The daemon alone takes a task out of    *)
(* running; meanwhile a claim may be cancelled, and nothing else.          *)
(***************************************************************************)
StateInv ==
  /\ at \in {"claimed", "claimWrite", "start"} \cup Undoing
       => state[task] \in {"claimed", "cancelled"}
  /\ at \in {"running"} \cup Completing \cup Suspending => state[task] = "running"
  /\ at \in {"closeAll", "recordReady"} => state[task] = goal
  /\ at \in InputSteps =>
       /\ then = "requeue" => state[task] \in {"claimed", "cancelled"}
       /\ then \in {"complete", "suspend"} => state[task] = "running"
       /\ then = "idle" /\ at \in GivingBack => state[task] = "retry_wait"
       /\ then = "idle" /\ at \in Settling => state[task] \in FinalStates \cup {"awaiting_review"}

(***************************************************************************)
(* A recorded result: it is recorded while the task runs, in processing,   *)
(* and an input that carries one is not given back.                        *)
(***************************************************************************)
Verdicts == {"succeeded", "failed", "awaiting_review"}
Recorded(t) == outcome[t] \in Verdicts

RecordOK(t) ==
  /\ Recorded(t) => /\ state[t] \in {"running", "succeeded", "failed_terminal", "awaiting_review"}
                    /\ dir[t] # "incoming"
  /\ status[t] = "processed" => dir[t] \in {"processed", "none"}

\* What the ingress will write back is, as far as it is a result or belongs to
\* a settled input, what is there.
IngressOK(t) ==
  /\ ingest[t] = "new" => state[t] = "absent"
  /\ ingest[t] \in {"marking", "rejecting"} =>
       /\ seen[t][1] # "none"
       /\ seen[t][1] = "processed" => dir[t] \in {"processed", "none"} /\ outcome[t] = seen[t][2]
       /\ seen[t][2] \in Verdicts => outcome[t] = seen[t][2]

\* ResultIsDurable, of one input.
DurableOK(t) ==
  state[t] \in {"succeeded", "awaiting_review"} =>
    /\ dir[t] \in {"processed", "none"}
    /\ \/ outcome[t] = OutcomeOf[state[t]]
       \/ review[t] = "approved" /\ outcome[t] = "awaiting_review"

\* A review is of a task that waits for it, and writes back its outcome.
ReviewOK(t) ==
  /\ review[t] \in {"read", "noted"} => state[t] = "awaiting_review"
  /\ review[t] = "read" => noted[t][1] = "processed" /\ noted[t][3] = "awaiting_review"

InputOK(t) == RecordOK(t) /\ IngressOK(t) /\ DurableOK(t)

(***************************************************************************)
(* The input of the task at hand.  Only the ingress, which writes once,    *)
(* may overwrite the result between its two writes; the second repeats it. *)
(***************************************************************************)
Overwritten(t) == t \in IngressTasks /\ ingest[t] = "done"

Reporting == Completing \cup Suspending \cup {"closeAll", "recordReady"}

HandInv == at \notin {"idle", "down"} /\ task \in Inputs =>
  /\ goal = "retry_wait" => ~Recorded(task)
  /\ at \in {"claimWrite", "start", "running", "toIncoming", "toProcessed"} =>
       dir[task] = "processing"
  /\ at = "release" => dir[task] = "incoming"
  /\ at = "markProcessed" => dir[task] = "processed"
  /\ at \in Reporting /\ goal # "retry_wait" =>
       outcome[task] = OutcomeOf[goal] /\ dir[task] \in {"processed", "none"}
  /\ at = "completeInput" /\ goal # "none" =>
       \/ outcome[task] = OutcomeOf[goal]
       \/ ~Recorded(task) /\ dir[task] = "processing"
  /\ at \in {"toProcessed", "markProcessed"} /\ goal # "none" =>
       outcome[task] = OutcomeOf[goal] \/ Overwritten(task)

WellFormed == CallInv /\ FilesTyped /\ DBTypeOK /\ MethodInv
ResultInv == (\A t \in Inputs : InputOK(t)) /\ HandInv
ReviewInv == \A t \in Inputs : ReviewOK(t)
DaemonInv == WellFormed /\ StateInv /\ ResultInv /\ ReviewInv

LEMMA AdvanceKeepsState == ASSUME DaemonInv, Advance PROVE StateInv'
<1> USE DEF DaemonInv, WellFormed, MethodInv, StateInv, Undoing, Completing, Suspending, GivingBack,
            Settling, InputSteps, InputCalls
<1>1. CASE RejectManifest \/ Requeue \/ Complete \/ Suspend
  BY <1>1 DEF RejectManifest, Requeue, Complete, Suspend, Goto, GiveUp, dbVars
<1>2. CASE ClaimInput \/ ClaimWrite
  BY <1>2 DEF ClaimInput, ClaimWrite, Goto, InputOnly, dbVars
<1>3. ASSUME NEW w \in Workers, Start(w)
      PROVE  StateInv'
  BY <1>3 DEF Start, StartTask, Goto, DBTypeOK, CallInv
<1>4. CASE StartRefused
  BY <1>4 DEF StartRefused, Call, dbVars
<1>5. ASSUME NEW s \in DOMAIN OutcomeOf, HandlerReturns(s)
      PROVE  StateInv'
  BY <1>5 DEF HandlerReturns, Call, Finish, OutcomeOf, dbVars
<1>6. CASE RequeueWrite \/ CompleteWrite
  BY <1>6 DEF RequeueWrite, CompleteWrite, WriteState, Goto, DBTypeOK, CallInv
<1>7. CASE CloseAll \/ Close
  BY <1>7 DEF CloseAll, Close, CloseAttempt, Goto
<1>8. CASE SuspendWrite
  BY <1>8 DEF SuspendWrite, WriteState, Proceed, DBTypeOK, CallInv
<1>9. CASE RecordReady
  BY <1>9 DEF RecordReady, RecordP40ReadyIfNeeded, Proceed
<1>10. CASE RequeueInput \/ ToIncoming \/ ReleaseInput
  BY <1>10 DEF RequeueInput, ToIncoming, ReleaseInput, Goto, Proceed, GiveUp, InputOnly, dbVars
<1>11. CASE CompleteInput \/ ToProcessed \/ MarkProcessed
  BY <1>11 DEF CompleteInput, ToProcessed, MarkProcessed, Goto, Proceed, GiveUp, InputOnly, dbVars
<1> QED
  BY <1>1, <1>2, <1>3, <1>4, <1>5, <1>6, <1>7, <1>8, <1>9, <1>10, <1>11 DEF Advance

LEMMA RecoverKeepsState == ASSUME DaemonInv, Recover PROVE StateInv'
<1> USE DEF DaemonInv, WellFormed, StateInv, Undoing, Completing, Suspending, GivingBack,
            Settling, InputSteps, InputCalls
<1>0. UNCHANGED state
  BY RecoverStoreStep DEF dbVars
<1>1. CASE Restart
  BY <1>1 DEF Restart
<1>2. ASSUME NEW t \in Inputs, RecoverTorn(t)
      PROVE  StateInv'
  BY <1>2 DEF RecoverTorn, Die
<1>3. ASSUME NEW t \in Inputs, RecoverRetry(t) \/ RecoverInFlight(t)
      PROVE  StateInv'
  BY <1>0, <1>3 DEF RecoverRetry, RecoverInFlight, Call, ToRetry, InFlight
<1>4. ASSUME NEW t \in Inputs, RecoverResult(t)
      PROVE  StateInv'
  <2>1. state[t] = "running" => StateInv'
    BY <1>0, <1>4 DEF RecoverResult, Call, Finish
  <2>2. Recorded(t)
    BY <1>4 DEF RecoverResult, Recorded, Verdicts, OutcomeOf
  <2> QED
    BY <1>4, <2>1, <2>2 DEF RecoverResult, InFlight, ResultInv, InputOK, RecordOK
<1>5. ASSUME NEW t \in Inputs, RecoverInput(t)
      PROVE  StateInv'
  BY <1>0, <1>5 DEF RecoverInput, Call, Visit
<1> QED
  BY <1>1, <1>2, <1>3, <1>4, <1>5 DEF Recover

\* While the daemon works on a task, no other process does more to it than
\* insert it or cancel it.
LEMMA OthersState ==
  ASSUME DBTypeOK, Ingress \/ (\E t \in Tasks : Cancel(t)), NEW u \in Tasks
  PROVE  \/ state'[u] = state[u]
         \/ state[u] = "absent" /\ state'[u] = "queued"
         \/ state[u] \in {"accepted", "queued", "claimed"} /\ state'[u] = "cancelled"
<1>1. ASSUME NEW t \in Tasks, NEW s, WriteState(t, s)
      PROVE  IF u = t THEN state'[u] = s ELSE state'[u] = state[u]
  BY <1>1 DEF DBTypeOK, WriteState
<1>2. ASSUME NEW t \in Tasks, Enqueue(t)
      PROVE  state'[u] = state[u] \/ (state[u] = "absent" /\ state'[u] = "queued")
  BY <1>1, <1>2 DEF Enqueue, AddTask
<1>3. ASSUME NEW t \in Tasks, CancelTask(t)
      PROVE  state'[u] = state[u]
             \/ (state[u] \in {"accepted", "queued", "claimed"} /\ state'[u] = "cancelled")
  <2>1. state[t] \in {"accepted", "queued", "claimed"}
    BY <1>3 DEF CancelTask, STATE_TRANSITIONS
  <2> QED
    BY <1>1, <1>3, <2>1 DEF CancelTask
<1>4. ASSUME NEW t \in Tasks, Stage(t) \/ RejectImage(t) \/ MarkRead(t) \/ MarkWrite(t)
      PROVE  state' = state
  BY <1>4 DEF Stage, RejectImage, MarkRead, MarkWrite, InputOnly, dbVars
<1> QED
  BY <1>2, <1>3, <1>4 DEF Ingress, CancelRejected, Cancel, dbVars

LEMMA OthersKeepState ==
  ASSUME DaemonInv, Poll \/ Crash \/ CallFails \/ Ingress
                    \/ (\E t \in Inputs : Cleanup(t)) \/ (\E t \in Tasks : Cancel(t))
  PROVE  StateInv'
<1> USE DEF StateInv, Undoing, Completing, Suspending, GivingBack, Settling, InputSteps,
            InputCalls
<1>1. CASE at' \in {"idle", "down"}
  BY <1>1
<1>2. ASSUME NEW t \in Tasks, Claim(t) PROVE StateInv'
  BY <1>2 DEF Claim, Call, ClaimTask, WriteState, DaemonInv, WellFormed, DBTypeOK
<1>3. CASE UNCHANGED <<state, at, task, goal, then>>
  BY <1>3 DEF DaemonInv
<1>4. ASSUME Ingress \/ (\E t \in Tasks : Cancel(t)), at' \notin {"idle", "down"}
      PROVE  StateInv'
  <2>1. UNCHANGED <<at, task, goal, then>>
    BY <1>4, OthersCall DEF Claim, Call, Ingress, Stage, Enqueue, RejectImage, MarkRead,
       MarkWrite, CancelRejected, Cancel, IngestTo, reviewVars, daemonVars
  <2>2. task \in Tasks
    BY <1>4, <2>1 DEF DaemonInv, WellFormed, CallInv
  <2>3. \/ state'[task] = state[task]
        \/ state[task] = "absent" /\ state'[task] = "queued"
        \/ state[task] \in {"accepted", "queued", "claimed"} /\ state'[task] = "cancelled"
    BY <1>4, <2>2, OthersState DEF DaemonInv, WellFormed
  <2>4. at \in {"closeAll", "recordReady"}
          => goal \in {"retry_wait", "succeeded", "failed_terminal", "awaiting_review"}
    BY DEF DaemonInv, WellFormed, CallInv, OutcomeOf
  <2> QED
    BY <1>4, <2>1, <2>3, <2>4 DEF DaemonInv, FinalStates
<1>5. CASE Poll \/ \E t \in Inputs : Cleanup(t)
  BY <1>1, <1>2, <1>3, <1>5 DEF Poll, Sleep, Promote, Cleanup, Ready, vars, daemonVars, dbVars
<1>6. Crash \/ CallFails => at' \in {"idle", "down"}
  BY DEF Crash, CallFails, Die, GiveUp
<1> QED
  BY <1>1, <1>4, <1>5, <1>6

-----------------------------------------------------------------------------
(* Results, step by step. *)

\* A move of the daemon alone leaves every input as it is.
LEMMA MoveKeepsInputs ==
  ASSUME UNCHANGED <<state, dir, status, outcome, ingest, seen, review>>,
         NEW t, InputOK(t)
  PROVE  InputOK(t)'
  BY DEF InputOK, RecordOK, IngressOK, DurableOK, Recorded

\* A step of the scheduler on the task at hand keeps the inputs, if what it
\* writes agrees with what is recorded.
LEMMA WriteKeepsInputs ==
  ASSUME DaemonInv, at \notin {"idle", "down"},
         UNCHANGED <<dir, status, outcome, ingest, seen, review>>,
         NEW s, s # "absent", state' = [state EXCEPT ![task] = s],
         state[task] # "absent",
         task \in Inputs =>
           /\ Recorded(task) =>
                s \in {"running", "succeeded", "failed_terminal", "awaiting_review"}
           /\ s \in {"succeeded", "awaiting_review"} =>
                outcome[task] = OutcomeOf[s] /\ dir[task] \in {"processed", "none"}
  PROVE  \A t \in Inputs : InputOK(t)'
<1> SUFFICES ASSUME NEW t \in Inputs PROVE InputOK(t)'
  OBVIOUS
<1>1. InputOK(t) /\ t \in Tasks /\ state \in [Tasks -> TaskStates \cup {"absent"}]
  BY DaemonAssumption DEF DaemonInv, WellFormed, DBTypeOK, ResultInv
<1>2. CASE t # task
  <2>1. state'[t] = state[t]
    BY <1>1, <1>2
  <2> QED
    BY <1>1, <2>1 DEF InputOK, RecordOK, IngressOK, DurableOK, Recorded
<1>3. CASE t = task
  <2>1. state'[t] = s
    BY <1>1, <1>3
  <2> QED
    BY <1>1, <1>3, <2>1 DEF InputOK, RecordOK, IngressOK, DurableOK, Recorded
<1> QED
  BY <1>2, <1>3

\* A file-system call touches one input.
LEMMA FileCallKeepsOthers ==
  ASSUME DaemonInv, NEW t, FileCall(t), UNCHANGED <<state, ingest, seen, review>>,
         NEW u \in Inputs, u # t
  PROVE  InputOK(u)'
<1>1. /\ dir'[u] = dir[u] /\ status'[u] = status[u] /\ outcome'[u] = outcome[u]
  BY DEF FileCall, Move, SetStatus, SetOutcome, Release, Tear, storageVars, DaemonInv, WellFormed,
         FilesTyped, StorageTypeOK
<1>2. InputOK(u)
  BY DEF DaemonInv, ResultInv
<1> QED
  BY <1>1, <1>2 DEF InputOK, RecordOK, IngressOK, DurableOK, Recorded

LEMMA AdvanceScheduler ==
  ASSUME DaemonInv, Advance,
         \/ RejectManifest \/ StartRefused \/ (\E w \in Workers : Start(w))
         \/ (\E s \in DOMAIN OutcomeOf : HandlerReturns(s))
         \/ Requeue \/ RequeueWrite \/ RecordReady
         \/ Complete \/ CompleteWrite \/ CloseAll
         \/ Suspend \/ Close \/ SuspendWrite
  PROVE  \A t \in Inputs : InputOK(t)'
<1> USE DEF DBOnly
<1>1. UNCHANGED <<ingest, seen, review>>
  BY AdvanceMoves DEF clientVars
<1>2. \A t \in Inputs : InputOK(t)
  BY DEF DaemonInv, ResultInv
<1>3. CASE \/ StartRefused \/ (\E s \in DOMAIN OutcomeOf : HandlerReturns(s))
           \/ Requeue \/ RecordReady \/ Complete \/ CloseAll \/ Suspend \/ Close
  <2>1. UNCHANGED <<state, dir, status, outcome>>
    BY <1>3 DEF StartRefused, HandlerReturns, Requeue, RecordReady, Complete, CloseAll, Suspend,
                Close, CloseAttempt, RecordP40ReadyIfNeeded, dbVars, storageVars
  <2> QED
    BY <1>1, <1>2, <2>1, MoveKeepsInputs
<1>4. CASE RejectManifest
  <2>1. CASE FailClaimedTask(task)
    BY <1>1, <1>4, <2>1, WriteKeepsInputs DEF RejectManifest, FailClaimedTask, WriteState,
       storageVars
  <2>2. CASE UNCHANGED dbVars
    BY <1>1, <1>2, <1>4, <2>2, MoveKeepsInputs DEF RejectManifest, dbVars, storageVars
  <2> QED
    BY <1>4, <2>1, <2>2 DEF RejectManifest
<1>5. ASSUME NEW w \in Workers, Start(w) PROVE \A t \in Inputs : InputOK(t)'
  BY <1>1, <1>5, WriteKeepsInputs DEF Start, StartTask, StartAllowed, storageVars
<1>6. CASE RequeueWrite
  <2>1. goal = "retry_wait" /\ state[task] # "absent"
    BY <1>6 DEF RequeueWrite, DaemonInv, WellFormed, MethodInv, StateInv, Undoing
  <2>2. task \in Inputs => ~Recorded(task)
    BY <1>6, <2>1 DEF RequeueWrite, DaemonInv, ResultInv, HandInv
  <2> QED
    BY <1>1, <1>6, <2>1, <2>2, WriteKeepsInputs DEF RequeueWrite, WriteState, storageVars
<1>7. CASE CompleteWrite \/ SuspendWrite
  <2>1. state[task] = "running" /\ goal \in DOMAIN OutcomeOf
    BY <1>7 DEF CompleteWrite, SuspendWrite, DaemonInv, WellFormed, MethodInv, StateInv,
                Completing, Suspending, OutcomeOf
  <2>2. task \in Inputs =>
          /\ goal = "retry_wait" => ~Recorded(task)
          /\ goal # "retry_wait" =>
               outcome[task] = OutcomeOf[goal] /\ dir[task] \in {"processed", "none"}
    BY <1>7 DEF CompleteWrite, SuspendWrite, DaemonInv, ResultInv, HandInv, Reporting,
                Completing, Suspending
  <2>3. goal # "absent"
        /\ (goal # "retry_wait" => goal \in {"succeeded", "failed_terminal", "awaiting_review"})
    BY <2>1 DEF OutcomeOf
  <2> QED
    BY <1>1, <1>7, <2>1, <2>2, <2>3, WriteKeepsInputs
    DEF CompleteWrite, SuspendWrite, WriteState, storageVars
<1> QED
  BY <1>3, <1>4, <1>5, <1>6, <1>7

\* The input at hand has no result when it is given back, and, when it is
\* settled without one to announce, the scheduler was settled before.
LEMMA HandIsClean ==
  ASSUME DaemonInv, task \in Inputs
  PROVE  /\ at \in {"claimed"} \cup GivingBack =>
              /\ ~Recorded(task)
              /\ state[task] \notin {"succeeded", "awaiting_review", "absent"}
         /\ at \in Settling /\ goal # "none" => state[task] = "running"
         /\ at \in Settling => state[task] # "absent"
<1> USE DEF DaemonInv, WellFormed, MethodInv, StateInv, ResultInv, InputSteps, InputCalls
<1>1. RecordOK(task)
  BY DEF InputOK
<1>2. at \in {"claimed"} \cup GivingBack =>
        \/ state[task] \in {"claimed", "cancelled", "retry_wait"}
        \/ goal = "retry_wait" /\ state[task] = "running"
  BY DEF GivingBack
<1>3. at \in {"claimed"} \cup GivingBack => ~Recorded(task)
  BY <1>1, <1>2 DEF RecordOK, HandInv, GivingBack
<1>4. /\ at \in Settling /\ goal # "none" => state[task] = "running"
      /\ at \in Settling => state[task] # "absent"
  BY DEF Settling, FinalStates
<1> QED
  BY <1>2, <1>3, <1>4

\* The daemon's calls on the input at hand.
LEMMA AdvanceInput ==
  ASSUME DaemonInv, Advance,
         \/ ClaimInput \/ ClaimWrite \/ RequeueInput \/ ToIncoming \/ ReleaseInput
         \/ CompleteInput \/ ToProcessed \/ MarkProcessed
  PROVE  \A t \in Inputs : InputOK(t)'
<1>1. UNCHANGED <<task, ingest, seen, review>>
  BY AdvanceMoves DEF clientVars
<1>2. UNCHANGED state
  BY DEF ClaimInput, ClaimWrite, RequeueInput, ToIncoming, ReleaseInput, CompleteInput,
         ToProcessed, MarkProcessed, InputOnly, dbVars
<1>3. ASSUME NEW t \in Inputs, t # task PROVE InputOK(t)'
  BY <1>1, <1>2, <1>3, AdvanceFiles, FileCallKeepsOthers
<1>4. ASSUME task \in Inputs PROVE InputOK(task)'
  <2> USE <1>1, <1>2, <1>4 DEF InputOK, RecordOK, IngressOK, DurableOK
  <2>0. StorageTypeOK
    BY DEF DaemonInv, WellFormed, FilesTyped
  <2>1. InputOK(task) /\ HandInv
    BY DEF DaemonInv, ResultInv
  <2>2. CASE ClaimInput
    BY <2>0, <2>1, <2>2, HandIsClean DEF ClaimInput, Claimable, Move, Goto, Recorded, StorageTypeOK,
       storageVars
  <2>3. CASE ClaimWrite
    BY <2>0, <2>1, <2>3 DEF ClaimWrite, SetStatus, Recorded, StorageTypeOK
  <2>4. CASE RequeueInput \/ ToIncoming \/ ReleaseInput
    <3>1. at \in GivingBack
      BY <2>4 DEF RequeueInput, ToIncoming, ReleaseInput, GivingBack
    <3>2. at = "toIncoming" => dir[task] = "processing"
      BY <2>1 DEF HandInv
    <3>3. at = "release" => dir[task] = "incoming"
      BY <2>1 DEF HandInv
    <3>4. ~Recorded(task) /\ state[task] \notin {"succeeded", "awaiting_review", "absent"}
      BY <3>1, HandIsClean
    <3>5. CASE RequeueInput
      BY <2>0, <2>1, <3>4, <3>5 DEF RequeueInput, SetOutcome, Release, Recorded,
         Verdicts, StorageTypeOK, storageVars
    <3>6. CASE ToIncoming
      BY <2>0, <2>1, <3>2, <3>4, <3>6 DEF ToIncoming, Move, Recorded, StorageTypeOK
    <3>7. CASE ReleaseInput
      BY <2>0, <2>1, <3>3, <3>4, <3>7 DEF ReleaseInput, Release, Recorded, Verdicts, StorageTypeOK
    <3> QED
      BY <2>4, <3>5, <3>6, <3>7
  <2>5. CASE CompleteInput
    <3>1. goal # "none" => state[task] = "running"
      BY <2>5, HandIsClean DEF CompleteInput, Settling
    <3>2. state[task] # "absent"
      BY <2>5, HandIsClean DEF CompleteInput, Settling
    <3>3. goal # "none" => \/ outcome[task] = OutcomeOf[goal]
                           \/ ~Recorded(task) /\ dir[task] = "processing"
      BY <2>1, <2>5 DEF CompleteInput, HandInv
    <3> QED
      BY <2>0, <2>1, <2>5, <3>1, <3>2, <3>3 DEF CompleteInput, SetOutcome, SetStatus, Recorded,
         Verdicts, OutcomeOf, StorageTypeOK, storageVars
  <2>6. CASE ToProcessed
    <3>1. dir[task] = "processing" /\ state[task] # "absent"
      BY <2>1, <2>6, HandIsClean DEF ToProcessed, HandInv, Settling
    <3> QED
      BY <2>0, <2>1, <2>6, <3>1 DEF ToProcessed, Move, Recorded, StorageTypeOK
  <2>7. CASE MarkProcessed
    <3>1. dir[task] = "processed" /\ state[task] # "absent"
      BY <2>1, <2>7, HandIsClean DEF MarkProcessed, HandInv, Settling
    <3>2. goal # "none" => state[task] = "running"
      BY <2>7, HandIsClean DEF MarkProcessed, Settling
    <3>3. goal # "none" => outcome[task] = OutcomeOf[goal] \/ ingest[task] = "done"
      BY <2>1, <2>7 DEF MarkProcessed, HandInv, Overwritten
    <3> QED
      BY <2>0, <2>1, <2>7, <3>1, <3>2, <3>3 DEF MarkProcessed, Recorded, Verdicts, OutcomeOf,
         StorageTypeOK
  <2> QED
    BY <2>2, <2>3, <2>4, <2>5, <2>6, <2>7
<1> QED
  BY <1>1, <1>3, <1>4

LEMMA AdvanceKeepsInputs ==
  ASSUME DaemonInv, Advance
  PROVE  \A t \in Inputs : InputOK(t)'
  BY AdvanceScheduler, AdvanceInput DEF Advance

\* The daemon's own steps carry what they know of the input from call to call.
LEMMA AdvanceKeepsHand == ASSUME DaemonInv, Advance PROVE HandInv'
<1> SUFFICES ASSUME at' \notin {"idle", "down"}, task \in Inputs PROVE HandInv'
  BY AdvanceMoves DEF HandInv
<1> USE DEF MethodInv, Undoing, Completing, Suspending, GivingBack, Settling, InputSteps,
            InputCalls, Reporting, Recorded
<1>0. UNCHANGED <<task, ingest>> /\ HandInv /\ MethodInv /\ StorageTypeOK
  BY AdvanceMoves DEF clientVars, DaemonInv, WellFormed, ResultInv, FilesTyped
<1>1. CASE RejectManifest \/ Requeue \/ Complete \/ Suspend
  <2>1. UNCHANGED <<goal, storageVars>> \/ at' = "idle"
    BY <1>1 DEF RejectManifest, Requeue, Complete, Suspend, Goto, GiveUp
  <2> QED
    BY <1>0, <1>1, <2>1 DEF HandInv, RejectManifest, Requeue, Complete, Suspend, Goto, GiveUp,
       storageVars
<1>2. CASE ClaimInput
  <2>1. CASE Claimable(task)
    BY <1>0, <1>2, <2>1 DEF HandInv, ClaimInput, Goto, Move, StorageTypeOK
  <2>2. CASE ~Claimable(task)
    BY <1>0, <1>2, <2>2 DEF HandInv, ClaimInput, Goto, storageVars
  <2> QED
    BY <2>1, <2>2
<1>3. CASE ClaimWrite
  BY <1>0, <1>3 DEF HandInv, ClaimWrite, Goto, SetStatus
<1>4. ASSUME NEW w \in Workers, Start(w) PROVE HandInv'
  BY <1>0, <1>4 DEF HandInv, Start, Goto, DBOnly, storageVars
<1>5. CASE StartRefused
  BY <1>0, <1>5 DEF HandInv, StartRefused, Call, storageVars
<1>6. ASSUME NEW s \in DOMAIN OutcomeOf, HandlerReturns(s) PROVE HandInv'
  <2>1. at = "running" /\ goal = "retry_wait" /\ ~Recorded(task) /\ dir[task] = "processing"
    BY <1>0, <1>6 DEF HandInv, HandlerReturns
  <2>2. UNCHANGED <<dir, outcome>> /\ goal' = s /\ at' \in {"requeueInput", "completeInput"}
    BY <1>6 DEF HandlerReturns, Call, storageVars
  <2> QED
    BY <1>0, <2>1, <2>2 DEF HandInv
<1>7. CASE RequeueWrite \/ CompleteWrite \/ CloseAll \/ Close
  BY <1>0, <1>7 DEF HandInv, RequeueWrite, CompleteWrite, CloseAll, Close, Goto, DBOnly, storageVars
<1>8. CASE RecordReady \/ SuspendWrite
  BY <1>0, <1>8 DEF HandInv, RecordReady, SuspendWrite, Proceed, DBOnly, storageVars
<1>9. CASE RequeueInput \/ ToIncoming \/ ReleaseInput
  <2>1. goal \in {"retry_wait", "none"} /\ UNCHANGED goal /\ ~Recorded(task)
    BY <1>0, <1>9, HandIsClean DEF RequeueInput, ToIncoming, ReleaseInput, Goto, Proceed, GiveUp
  <2>2. outcome'[task] \notin Verdicts
    BY <1>0, <1>9, <2>1 DEF RequeueInput, ToIncoming, ReleaseInput, SetOutcome, Release, Move,
       StorageTypeOK, Verdicts, storageVars
  <2>3. \/ at' = "toIncoming" /\ dir'[task] = "processing"
        \/ at' = "release" /\ dir'[task] = "incoming"
        \/ at' \in {"requeue", "suspend"} /\ goal = "retry_wait"
    <3>1. CASE RequeueInput
      BY <1>0, <3>1 DEF RequeueInput, SetOutcome, Goto, Proceed, GiveUp
    <3>2. CASE ToIncoming
      BY <1>0, <3>2 DEF ToIncoming, Move, Goto, StorageTypeOK
    <3>3. CASE ReleaseInput
      BY <1>0, <3>3 DEF ReleaseInput, Proceed
    <3> QED
      BY <1>9, <3>1, <3>2, <3>3
  <2> QED
    BY <1>0, <2>1, <2>2, <2>3 DEF HandInv
<1>10. CASE CompleteInput
  <2>1. goal \in {"none", "succeeded", "failed_terminal", "awaiting_review"} /\ UNCHANGED goal
        /\ (goal = "none" => then = "idle") /\ then \in {"idle", "complete", "suspend"}
    BY <1>0, <1>10 DEF CompleteInput, Goto, Proceed, GiveUp
  <2>2. CASE dir[task] = "processing"
    <3>1. at' = "toProcessed" /\ dir' = dir
          /\ (goal # "none" => outcome'[task] = OutcomeOf[goal])
      BY <1>0, <1>10, <2>1, <2>2 DEF CompleteInput, SetOutcome, Goto, OutcomeOf, StorageTypeOK,
         storageVars
    <3> QED
      BY <1>0, <2>1, <2>2, <3>1 DEF HandInv
  <2>3. CASE dir[task] = "processed"
    <3>1. at' = then /\ goal # "none" /\ dir' = dir /\ outcome' = outcome
          /\ at' \in {"complete", "suspend"}
      BY <1>10, <2>1, <2>3 DEF CompleteInput, SetStatus, Proceed
    <3>2. outcome[task] = OutcomeOf[goal]
      BY <1>0, <1>10, <2>3, <3>1 DEF CompleteInput, HandInv
    <3> QED
      BY <1>0, <2>1, <2>3, <3>1, <3>2 DEF HandInv
  <2> QED
    BY <1>10, <2>2, <2>3 DEF CompleteInput, GiveUp
<1>11. CASE ToProcessed
  BY <1>0, <1>11 DEF HandInv, ToProcessed, Move, Goto, StorageTypeOK, Overwritten
<1>12. CASE MarkProcessed
  <2>1. at' = then /\ goal # "none" /\ UNCHANGED <<goal, dir>> /\ dir[task] = "processed"
        /\ goal \in {"succeeded", "failed_terminal", "awaiting_review"}
        /\ at' \in {"complete", "suspend"}
    BY <1>0, <1>12 DEF MarkProcessed, Proceed, HandInv
  <2>2. outcome'[task] = OutcomeOf[goal]
    BY <1>0, <1>12, <2>1 DEF MarkProcessed, StorageTypeOK, OutcomeOf
  <2> QED
    BY <1>0, <2>1, <2>2 DEF HandInv
<1> QED
  BY <1>1, <1>2, <1>3, <1>4, <1>5, <1>6, <1>7, <1>8, <1>9, <1>10, <1>11, <1>12 DEF Advance

\* Recovery calls a method with what it has read, and writes nothing itself.
LEMMA RecoverKeepsResults == ASSUME DaemonInv, Recover PROVE ResultInv'
<1> USE DEF ResultInv
<1>0. UNCHANGED <<state, dir, status, outcome, ingest, seen, review>>
  BY DEF Recover, Restart, RecoverTorn, RecoverRetry, RecoverResult, RecoverInFlight,
         RecoverInput, Die, Call, clientVars, dbVars, storageVars
<1>1. \A t \in Inputs : InputOK(t)'
  BY <1>0, MoveKeepsInputs DEF DaemonInv
<1> USE DEF HandInv, Reporting, Completing, Suspending, Recorded, Verdicts
<1>2. ASSUME Restart PROVE HandInv'
  BY <1>2 DEF Restart
<1>3. ASSUME NEW t \in Inputs, RecoverTorn(t) PROVE HandInv'
  BY <1>3 DEF RecoverTorn, Die
<1>4. ASSUME NEW t \in Inputs, RecoverRetry(t) \/ RecoverInFlight(t) PROVE HandInv'
  BY <1>0, <1>4 DEF RecoverRetry, RecoverInFlight, Call, ToRetry
<1>5. ASSUME NEW t \in Inputs, RecoverResult(t) PROVE HandInv'
  <2>1. RecordOK(t)
    BY DEF DaemonInv, InputOK
  <2>2. PICK s \in {"succeeded", "failed_terminal", "awaiting_review"} :
          /\ outcome[t] = OutcomeOf[s]
          /\ task' = t /\ goal' = s
          /\ IF status[t] = "processed" THEN at' = Finish(s) ELSE at' = "completeInput"
    BY <1>5 DEF RecoverResult, Call
  <2> QED
    BY <1>0, <2>1, <2>2 DEF RecordOK, Finish
<1>6. ASSUME NEW t \in Inputs, RecoverInput(t) PROVE HandInv'
  BY <1>0, <1>6 DEF RecoverInput, Call, Visit
<1> QED
  BY <1>1, <1>2, <1>3, <1>4, <1>5, <1>6 DEF Recover

\* A transaction on a task without a recorded result keeps its input.
LEMMA TransactionKeepsInput ==
  ASSUME NEW t \in Inputs, InputOK(t),
         UNCHANGED <<dir, status, outcome, seen, review>>,
         ingest'[t] \in {"marking", "rejecting"} => ingest'[t] = ingest[t],
         \/ state'[t] = state[t]
            /\ (ingest'[t] = "new" => ingest[t] = "new")
         \/ /\ state[t] \in {"absent", "accepted", "queued", "claimed", "retry_wait"}
            /\ state'[t] \in {"queued", "claimed", "cancelled"}
            /\ ingest'[t] # "new"
  PROVE  InputOK(t)'
  BY DEF InputOK, RecordOK, IngressOK, DurableOK, Recorded

\* The daemon works on tasks that exist.
LEMMA HandExists ==
  ASSUME DaemonInv, at \notin {"idle", "down"}
  PROVE  task \in Tasks /\ state[task] # "absent"
<1> USE DEF DaemonInv, WellFormed, CallInv, MethodInv, StateInv
<1>1. at \in InputSteps => state[task] # "absent"
  BY DEF InputSteps, InputCalls, GivingBack, Settling, FinalStates
<1>2. at \in {"closeAll", "recordReady"} => state[task] # "absent"
  BY DEF InputSteps, InputCalls, OutcomeOf
<1>3. at \notin InputSteps \cup {"closeAll", "recordReady"} => state[task] # "absent"
  BY DEF PCs, InputSteps, InputCalls, DBCalls, Undoing, Completing, Suspending
<1> QED
  BY <1>1, <1>2, <1>3

\* The loop, a kill, a failing call and the retention keep the results.
LEMMA LoopKeepsResults ==
  ASSUME DaemonInv, Poll \/ Crash \/ CallFails \/ (\E t \in Inputs : Cleanup(t))
  PROVE  ResultInv'
<1> USE DaemonAssumption DEF ResultInv
<1>0. (\A t \in Inputs : InputOK(t)) /\ StorageTypeOK /\ DBTypeOK
  BY DEF DaemonInv, WellFormed, FilesTyped
<1>1. UNCHANGED <<ingest, seen, review>>
  BY DEF Poll, Sleep, Claim, Promote, Crash, CallFails, Cleanup, Die, GiveUp, Call, clientVars,
         vars, daemonVars
<1>2. ASSUME NEW t \in Tasks, Claim(t) PROVE ResultInv'
  <2>1. /\ state[t] = "queued" /\ state' = [state EXCEPT ![t] = "claimed"]
        /\ UNCHANGED <<dir, status, outcome>>
    BY <1>2 DEF Claim, ClaimTask, WriteState, DBOnly, storageVars
  <2>2. ASSUME NEW u \in Inputs PROVE InputOK(u)'
    <3>1. ingest[u] = "new" => state[u] = "absent"
      BY <1>0 DEF InputOK, IngressOK
    <3> QED
      BY <1>0, <1>1, <2>1, <3>1, TransactionKeepsInput DEF DBTypeOK
  <2>3. HandInv'
    BY <1>0, <1>2, <2>1 DEF Claim, Call, HandInv, InputOK, RecordOK, Recorded, Reporting,
       Completing, Suspending
  <2> QED
    BY <2>2, <2>3
<1>3. ASSUME NEW t \in Tasks, Promote(t) PROVE ResultInv'
  <2>1. /\ state[t] = "retry_wait" /\ state' = [state EXCEPT ![t] = "queued"]
        /\ UNCHANGED <<dir, status, outcome>>
    BY <1>3 DEF Promote, WriteState, DBOnly, storageVars
  <2>2. ASSUME NEW u \in Inputs PROVE InputOK(u)'
    <3>1. ingest[u] = "new" => state[u] = "absent"
      BY <1>0 DEF InputOK, IngressOK
    <3> QED
      BY <1>0, <1>1, <2>1, <3>1, TransactionKeepsInput DEF DBTypeOK
  <2>3. HandInv'
    BY <1>3 DEF Promote, Ready, HandInv, daemonVars
  <2> QED
    BY <2>2, <2>3
<1>4. CASE Sleep
  BY <1>0, <1>4, MoveKeepsInputs DEF Sleep, Ready, HandInv, vars, dbVars, storageVars, daemonVars,
     clientVars
<1>5. CASE Crash \/ CallFails
  <2>1. UNCHANGED <<state, dir, status, outcome>> /\ at' \in {"idle", "down"}
    BY <1>5 DEF Crash, CallFails, Die, GiveUp, Tear, InputOnly, dbVars, storageVars
  <2> QED
    BY <1>0, <1>1, <2>1, MoveKeepsInputs DEF HandInv
<1>6. ASSUME NEW t \in Inputs, Cleanup(t) PROVE ResultInv'
  <2>1. UNCHANGED state /\ at' = "idle" /\ FileCall(t)
    BY <1>6 DEF Cleanup, Ready, FileCall, Dirs, dbVars, daemonVars
  <2>2. InputOK(t)'
    BY <1>0, <1>1, <1>6, <2>1 DEF Cleanup, Move, InputOK, RecordOK, IngressOK, DurableOK, Recorded,
       StorageTypeOK
  <2>3. ASSUME NEW u \in Inputs, u # t PROVE InputOK(u)'
    BY <1>1, <2>1, <2>3, FileCallKeepsOthers
  <2> QED
    BY <2>1, <2>2, <2>3 DEF HandInv
<1> QED
  BY <1>2, <1>3, <1>4, <1>5, <1>6 DEF Poll

\* What the ingress and the operators do to the store.
LEMMA OperatorKeepsResults ==
  ASSUME DaemonInv, NEW t \in Tasks,
         Cancel(t) \/ Enqueue(t) \/ RejectImage(t) \/ CancelRejected(t)
  PROVE  ResultInv'
<1> USE DaemonAssumption DEF ResultInv
<1>0. /\ \A u \in Inputs : InputOK(u)
      /\ HandInv /\ DBTypeOK /\ ingest \in [Tasks -> IngestSteps]
  BY DEF DaemonInv, WellFormed, FilesTyped
<1>1. UNCHANGED <<dir, status, outcome, seen, review, at, task, goal>>
  BY DEF Cancel, Enqueue, RejectImage, CancelRejected, IngestTo, reviewVars, DBOnly, storageVars,
     daemonVars,
     clientVars
<1>2. \A u \in Tasks : u # t => ingest'[u] = ingest[u] /\ state'[u] = state[u]
  BY <1>0 DEF Cancel, Enqueue, RejectImage, CancelRejected, CancelTask, AddTask, WriteState,
     IngestTo, reviewVars, clientVars, dbVars, DBTypeOK
<1>3. \/ state'[t] = state[t] /\ ingest'[t] # "new"
      \/ /\ state[t] = "absent" /\ state'[t] = "queued"
         /\ ingest'[t] # "new"
      \/ /\ state[t] \in {"accepted", "queued", "claimed"} /\ state'[t] = "cancelled"
         /\ ingest'[t] = ingest[t] \/ ingest'[t] = "reject"
  <2>1. CASE Cancel(t)
    BY <1>0, <2>1 DEF Cancel, CancelTask, WriteState, STATE_TRANSITIONS, clientVars, DBTypeOK
  <2>2. CASE Enqueue(t)
    BY <1>0, <2>2 DEF Enqueue, AddTask, WriteState, IngestTo, reviewVars, DBTypeOK
  <2>3. CASE RejectImage(t)
    BY <1>0, <2>3 DEF RejectImage, IngestTo, reviewVars, dbVars
  <2>4. CASE CancelRejected(t)
    BY <1>0, <2>4 DEF CancelRejected, CancelTask, WriteState, IngestTo, reviewVars,
       STATE_TRANSITIONS, DBTypeOK,
       dbVars
  <2> QED
    BY <2>1, <2>2, <2>3, <2>4
<1>4. /\ ingest'[t] = ingest[t] \/ ingest'[t] \notin {"marking", "rejecting"}
      /\ ingest[t] = "done" => ingest'[t] = "done"
  BY <1>0 DEF Cancel, Enqueue, RejectImage, CancelRejected, IngestTo, reviewVars, clientVars
<1>5. ASSUME NEW u \in Inputs PROVE InputOK(u)'
  <2>1. CASE u # t
    BY <1>0, <1>1, <1>2, <2>1, TransactionKeepsInput
  <2>2. CASE u = t
    <3>1. ingest[u] = "new" => state[u] = "absent"
      BY <1>0 DEF InputOK, IngressOK
    <3> QED
      BY <1>0, <1>1, <1>3, <1>4, <2>2, <3>1, TransactionKeepsInput
  <2> QED
    BY <2>1, <2>2
<1>6. HandInv'
  <2>1. task \in Inputs /\ Overwritten(task) => Overwritten(task)'
    BY <1>1, <1>2, <1>4 DEF Overwritten
  <2> QED
    BY <1>0, <1>1, <2>1 DEF HandInv, Recorded
<1> QED
  BY <1>5, <1>6

\* A new input is staged before there is a task.
LEMMA StageKeepsResults ==
  ASSUME DaemonInv, NEW t \in Tasks, Stage(t)
  PROVE  ResultInv'
<1> USE DaemonAssumption DEF ResultInv
<1>0. /\ \A u \in Inputs : InputOK(u)
      /\ HandInv /\ StorageTypeOK /\ ingest \in [Tasks -> IngestSteps]
  BY DEF DaemonInv, WellFormed, FilesTyped
<1>1. UNCHANGED <<state, seen, review, at, task, goal>> /\ t \in Inputs
  BY DEF Stage, IngestTo, reviewVars, InputOnly, dbVars, daemonVars
<1>2. /\ dir' = [dir EXCEPT ![t] = "incoming"]
      /\ status' = [status EXCEPT ![t] = "accepted"]
      /\ outcome' = [outcome EXCEPT ![t] = "none"]
      /\ ingest' = [ingest EXCEPT ![t] = "staged"]
      /\ ingest[t] = "new"
  BY DEF Stage, StageInput, IngestTo, reviewVars
<1>3. state[t] = "absent"
  BY <1>0, <1>1, <1>2 DEF InputOK, IngressOK
<1>4. InputOK(t)'
  BY <1>0, <1>1, <1>2, <1>3 DEF InputOK, RecordOK, IngressOK, DurableOK, Recorded, Verdicts,
     StorageTypeOK
<1>5. ASSUME NEW u \in Inputs, u # t PROVE InputOK(u)'
  <2>1. /\ dir'[u] = dir[u] /\ status'[u] = status[u] /\ outcome'[u] = outcome[u]
        /\ ingest'[u] = ingest[u]
    BY <1>0, <1>2, <1>5 DEF StorageTypeOK
  <2> QED
    BY <1>0, <1>1, <2>1 DEF InputOK, RecordOK, IngressOK, DurableOK, Recorded
<1>6. HandInv'
  <2>1. at \notin {"idle", "down"} => task # t
    BY <1>3, HandExists
  <2>2. at \notin {"idle", "down"} /\ task \in Inputs =>
          /\ dir'[task] = dir[task] /\ outcome'[task] = outcome[task]
          /\ ingest'[task] = ingest[task]
    BY <1>0, <1>2, <2>1 DEF StorageTypeOK
  <2> QED
    BY <1>0, <1>1, <2>2 DEF HandInv, Recorded, Overwritten
<1> QED
  BY <1>4, <1>5, <1>6

\* The ingress reads the metadata it is about to write back ...
LEMMA ReadKeepsResults ==
  ASSUME DaemonInv, NEW t \in Tasks, MarkRead(t)
  PROVE  ResultInv'
<1> USE DaemonAssumption DEF ResultInv
<1>0. /\ \A u \in Inputs : InputOK(u)
      /\ HandInv /\ ingest \in [Tasks -> IngestSteps] /\ seen \in [Inputs -> Dirs \X Outcomes]
      /\ StorageTypeOK
  BY DEF DaemonInv, WellFormed, FilesTyped
<1>1. UNCHANGED <<state, dir, status, outcome, review, at, task, goal>> /\ t \in Inputs
  BY DEF MarkRead, daemonVars, reviewVars, dbVars, storageVars, DaemonInv, WellFormed, FilesTyped,
         IngressOnly
<1>2. ASSUME NEW u \in Inputs PROVE InputOK(u)'
  <2>1. CASE u # t
    <3>1. ingest'[u] = ingest[u] /\ seen'[u] = seen[u]
      BY <1>0, <2>1 DEF MarkRead
    <3> QED
      BY <1>0, <1>1, <3>1 DEF InputOK, RecordOK, IngressOK, DurableOK, Recorded
  <2>2. CASE u = t
    <3>1. ingest'[t] \in {"cancel", "done"}
          \/ /\ ingest'[t] \in {"marking", "rejecting"} /\ seen'[t] = <<dir[t], outcome[t]>>
             /\ dir[t] # "none"
      BY <1>0, <1>1 DEF MarkRead, Unmarked
    <3> QED
      BY <1>0, <1>1, <2>2, <3>1 DEF InputOK, RecordOK, IngressOK, DurableOK, Recorded
  <2> QED
    BY <2>1, <2>2
<1>3. HandInv'
  <2>1. \A u \in Tasks : Overwritten(u) => Overwritten(u)'
    BY <1>0 DEF Overwritten, MarkRead
  <2> QED
    BY <1>0, <1>1, <2>1 DEF HandInv, Recorded
<1> QED
  BY <1>2, <1>3

\* ... and writes it back, once, unless the daemon has moved the input.
LEMMA WriteBackKeepsResults ==
  ASSUME DaemonInv, NEW t \in Tasks, MarkWrite(t)
  PROVE  ResultInv'
<1> USE DaemonAssumption DEF ResultInv
<1>0. /\ \A u \in Inputs : InputOK(u)
      /\ HandInv /\ ingest \in [Tasks -> IngestSteps] /\ seen \in [Inputs -> Dirs \X Outcomes]
      /\ StorageTypeOK
  BY DEF DaemonInv, WellFormed, FilesTyped
<1>1. /\ UNCHANGED <<state, dir, seen, review, at, task, goal>>
      /\ t \in IngressTasks /\ ingest[t] \in {"marking", "rejecting"}
  BY DEF MarkWrite, IngestTo, reviewVars, InputOnly, daemonVars, dbVars, storageVars, DaemonInv,
     WellFormed,
     FilesTyped, IngressOnly
<1>2. \A u \in Inputs : u # t =>
        /\ status'[u] = status[u] /\ outcome'[u] = outcome[u] /\ ingest'[u] = ingest[u]
  BY <1>0 DEF MarkWrite, IngestTo, reviewVars, storageVars, StorageTypeOK
<1>3. ASSUME NEW u \in Inputs, u # t PROVE InputOK(u)'
  BY <1>0, <1>1, <1>2, <1>3 DEF InputOK, RecordOK, IngressOK, DurableOK, Recorded
<1>4. CASE dir[t] # seen[t][1]
  <2>1. UNCHANGED <<status, outcome>> /\ ingest'[t] \in {"cancel", "done"}
    BY <1>0, <1>1, <1>4 DEF MarkWrite, IngestTo, reviewVars, Unmarked, storageVars
  <2>2. InputOK(t)'
    BY <1>0, <1>1, <2>1 DEF InputOK, RecordOK, IngressOK, DurableOK, Recorded
  <2>3. \A u \in Inputs : Overwritten(u) => Overwritten(u)'
    BY <1>1, <1>2 DEF Overwritten
  <2>4. HandInv'
    BY <1>0, <1>1, <2>1, <2>3 DEF HandInv, Recorded
  <2> QED
    BY <1>3, <2>2, <2>4
<1>5. CASE dir[t] = seen[t][1]
  <2>1. /\ status'[t] # "processed" /\ outcome'[t] = seen[t][2] /\ ingest'[t] = "done"
    BY <1>0, <1>1, <1>5 DEF MarkWrite, IngestTo, reviewVars, StorageTypeOK
  <2>2. /\ dir[t] # "none"
        /\ dir[t] = "processed" => outcome'[t] = outcome[t]
        /\ outcome'[t] \in Verdicts => outcome'[t] = outcome[t]
    BY <1>0, <1>1, <1>5, <2>1 DEF InputOK, IngressOK
  <2>3. InputOK(t)'
    BY <1>0, <1>1, <2>1, <2>2 DEF InputOK, RecordOK, IngressOK, DurableOK, Recorded
  <2>4. CASE task # t
    <3>1. \A u \in Inputs : u # t => (Overwritten(u) <=> Overwritten(u)')
      BY <1>1, <1>2 DEF Overwritten
    <3> QED
      BY <1>0, <1>1, <1>2, <1>3, <2>3, <2>4, <3>1 DEF HandInv, Recorded
  <2>5. CASE task = t
    <3>1. Overwritten(task)'
      BY <1>1, <2>1, <2>5 DEF Overwritten
    <3>2. Recorded(t) => dir[t] \in {"processing", "processed"}
      BY <1>0, <1>1, <2>2 DEF InputOK, RecordOK, Recorded, StorageTypeOK, Dirs
    <3>3. goal # "retry_wait" /\ goal # "none" =>
            goal \in DOMAIN OutcomeOf /\ OutcomeOf[goal] \in Verdicts
      BY DEF DaemonInv, WellFormed, CallInv, OutcomeOf, Verdicts
    <3>4. ASSUME at \notin {"idle", "down"}, goal = "retry_wait" PROVE ~Recorded(t)'
      BY <1>0, <1>1, <2>2, <2>5, <3>4 DEF HandInv, Recorded
    <3>5. ASSUME at \in Reporting, goal # "retry_wait"
          PROVE  outcome'[t] = OutcomeOf[goal] /\ dir[t] \in {"processed", "none"}
      BY <1>0, <1>1, <2>2, <2>5, <3>5
      DEF HandInv, Reporting, Completing, Suspending
    <3>6. ASSUME at = "completeInput", goal # "none"
          PROVE  outcome'[t] = OutcomeOf[goal]
                 \/ (~Recorded(t)' /\ dir[t] = "processing")
      <4>1. goal # "retry_wait"
        BY <3>6 DEF DaemonInv, WellFormed, MethodInv, Settling
      <4> QED
        BY <1>0, <1>1, <2>2, <2>5, <3>2, <3>3, <3>6, <4>1 DEF HandInv, Recorded
    <3> QED
      BY <1>0, <1>1, <1>3, <2>3, <2>5, <3>1, <3>4, <3>5, <3>6 DEF HandInv, Recorded
  <2> QED
    BY <2>4, <2>5
<1> QED
  BY <1>4, <1>5

\* A review writes back the outcome it read, and decides on a task that the
\* daemon has done with.
LEMMA ReviewKeepsResults == ASSUME DaemonInv, Review PROVE StateInv' /\ ResultInv'
<1> USE DaemonAssumption DEF ResultInv
<1>0. /\ \A t \in Inputs : InputOK(t) /\ ReviewOK(t)
      /\ HandInv /\ StateInv /\ MethodInv /\ StorageTypeOK /\ DBTypeOK
      /\ review \in [Inputs -> ReviewSteps]
  BY DEF DaemonInv, WellFormed, FilesTyped, ReviewInv
<1>1. UNCHANGED <<at, task, goal, then, ingest, seen, dir>>
  BY ReviewMoves DEF daemonVars
<1>2. PICK t \in Reviewed : \/ ReviewRead(t) \/ ReviewWrite(t) \/ ReviewGivesUp(t)
                           \/ \E decision \in {"approved", "rejected"} : Decide(t, decision)
  BY DEF Review
<1>3. /\ t \in Inputs /\ t \in Tasks
      /\ state[t] = "awaiting_review" /\ review[t] \in {"none", "read", "noted"}
      /\ outcome[t] = "awaiting_review" /\ dir[t] \in {"processed", "none"}
  BY <1>0, <1>2 DEF ReviewRead, ReviewWrite, ReviewGivesUp, Decide, ReviewOK, InputOK, DurableOK,
     OutcomeOf
<1>4. UNCHANGED outcome
  BY <1>0, <1>2, <1>3 DEF ReviewRead, ReviewWrite, ReviewGivesUp, Decide, DBOnly, storageVars,
     StorageTypeOK, ReviewOK
<1>5. /\ \A u \in Inputs \ {t} : review'[u] = review[u] /\ status'[u] = status[u]
      /\ \A u \in Tasks \ {t} : state'[u] = state[u]
      /\ status'[t] = status[t] \/ dir[t] = "processed"
      /\ \/ state'[t] = "awaiting_review" \/ state'[t] = "failed_terminal"
         \/ state'[t] = "succeeded" /\ review'[t] = "approved"
  <2>1. CASE ReviewRead(t) \/ ReviewGivesUp(t)
    BY <1>0, <1>3, <2>1 DEF ReviewRead, ReviewGivesUp, dbVars, storageVars
  <2>2. CASE ReviewWrite(t)
    BY <1>0, <1>3, <2>2 DEF ReviewWrite, InputOnly, dbVars, StorageTypeOK, ReviewOK
  <2>3. ASSUME NEW decision \in {"approved", "rejected"}, Decide(t, decision)
        PROVE  /\ UNCHANGED status /\ review' = [review EXCEPT ![t] = decision]
               /\ \/ state' = [state EXCEPT ![t] = "succeeded"] /\ decision = "approved"
                  \/ state' = [state EXCEPT ![t] = "failed_terminal"]
    BY <2>3 DEF Decide, ApproveAwaitingReview, WriteState, DBOnly, storageVars
  <2> QED
    BY <1>0, <1>2, <1>3, <2>1, <2>2, <2>3 DEF DBTypeOK
<1>6. InputOK(t)'
  BY <1>0, <1>1, <1>3, <1>4, <1>5 DEF InputOK, RecordOK, IngressOK, DurableOK, Recorded, OutcomeOf
<1>7. ASSUME NEW u \in Inputs, u # t PROVE InputOK(u)'
  BY <1>0, <1>1, <1>4, <1>5, <1>7 DEF InputOK, RecordOK, IngressOK, DurableOK, Recorded
<1>8. HandInv'
  BY <1>0, <1>1, <1>4 DEF HandInv, Recorded, Overwritten
<1>9. StateInv'
  <2>1. CASE task = t
    BY <1>0, <1>1, <1>3, <1>5, <2>1 DEF StateInv, MethodInv, Undoing, Completing, Suspending,
       GivingBack, Settling, FinalStates
  <2>2. CASE at \notin {"idle", "down"} /\ task # t
    <3>1. state'[task] = state[task]
      BY <1>5, <2>2, HandExists
    <3> QED
      BY <1>0, <1>1, <3>1 DEF StateInv
  <2>3. CASE at \in {"idle", "down"}
    BY <1>1, <2>3 DEF StateInv, Undoing, Completing, Suspending, InputSteps, InputCalls
  <2> QED
    BY <2>1, <2>2, <2>3
<1> QED
  BY <1>6, <1>7, <1>8, <1>9

\* One step of the daemon changes the state of no other task.
LEMMA AdvanceOneState ==
  ASSUME DaemonInv, Advance, NEW t \in Tasks, t # task
  PROVE  state'[t] = state[t]
<1>1. state \in [Tasks -> TaskStates \cup {"absent"}]
  BY DEF DaemonInv, WellFormed, DBTypeOK
<1>2. CASE UNCHANGED state
  BY <1>2
<1>3. CASE RejectManifest \/ RequeueWrite \/ CompleteWrite \/ SuspendWrite
  BY <1>1, <1>3 DEF RejectManifest, FailClaimedTask, RequeueWrite, CompleteWrite, SuspendWrite,
     WriteState, dbVars
<1>4. ASSUME NEW w, Start(w) PROVE state'[t] = state[t]
  BY <1>1, <1>4 DEF Start, StartTask
<1> QED
  BY <1>2, <1>3, <1>4 DEF Advance, ClaimInput, ClaimWrite, StartRefused, HandlerReturns, Requeue,
     RecordReady, RecordP40ReadyIfNeeded, Complete, CloseAll, Suspend, Close, CloseAttempt,
     RequeueInput, ToIncoming, ReleaseInput, CompleteInput, ToProcessed, MarkProcessed,
     InputOnly, dbVars

\* Nobody else moves a task out of awaiting_review.
LEMMA AwaitingStays ==
  ASSUME DaemonInv, [Next]_vars, ~Review, NEW t \in Tasks, state[t] = "awaiting_review"
  PROVE  state'[t] = "awaiting_review"
<1>0. DBTypeOK
  BY DEF DaemonInv, WellFormed
<1>1. CASE Advance
  <2>1. CASE t # task
    BY <1>1, <2>1, AdvanceOneState
  <2>2. CASE t = task
    <3>1. at \notin {"claimed", "start"} \cup Undoing \cup Completing \cup Suspending
      BY <2>2 DEF DaemonInv, StateInv
    <3> QED
      BY <1>1, <3>1 DEF Advance, RejectManifest, ClaimInput, ClaimWrite, Start, StartRefused,
         HandlerReturns, Requeue, RequeueWrite, RecordReady, RecordP40ReadyIfNeeded, Complete,
         CompleteWrite, CloseAll, Suspend, Close, CloseAttempt, SuspendWrite, RequeueInput,
         ToIncoming, ReleaseInput, CompleteInput, ToProcessed, MarkProcessed, InputOnly, dbVars,
         Undoing, Completing, Suspending
  <2> QED
    BY <2>1, <2>2
<1>2. ASSUME NEW u \in Tasks, Claim(u) \/ Promote(u)
      PROVE  state'[t] = state[t]
  BY <1>0, <1>2 DEF Claim, ClaimTask, Promote, WriteState, DBTypeOK
<1>3. CASE Ingress \/ \E u \in Tasks : Cancel(u)
  BY <1>0, <1>3, OthersState
<1>4. Recover \/ Crash \/ CallFails \/ UNCHANGED vars => UNCHANGED state
  BY RecoverStoreStep DEF Crash, CallFails, InputOnly, dbVars, vars
<1>5. ASSUME NEW u, Cleanup(u) PROVE UNCHANGED state
  BY <1>5 DEF Cleanup, dbVars
<1> QED
  BY <1>1, <1>2, <1>3, <1>4, <1>5 DEF Next, Poll, Sleep, vars, dbVars

\* Only a review writes what a review knows.
LEMMA OthersKeepReviewVars ==
  ASSUME [Next]_vars, ~Review PROVE UNCHANGED reviewVars
<1>1. Advance => UNCHANGED reviewVars
  BY AdvanceMoves DEF clientVars, reviewVars
<1>2. Recover \/ Poll \/ Crash \/ CallFails \/ UNCHANGED vars => UNCHANGED reviewVars
  BY DEF Recover, Restart, RecoverTorn, RecoverRetry, RecoverResult, RecoverInFlight,
         RecoverInput, Poll, Sleep, Claim, Promote, Crash, CallFails, Die, GiveUp, Call, vars,
         clientVars, reviewVars
<1>3. Ingress => UNCHANGED reviewVars
  BY DEF Ingress, Stage, Enqueue, RejectImage, MarkRead, MarkWrite, CancelRejected, IngestTo
<1>4. ASSUME NEW t, Cleanup(t) \/ Cancel(t) PROVE UNCHANGED reviewVars
  BY <1>4 DEF Cleanup, Cancel, clientVars, reviewVars
<1> QED
  BY <1>1, <1>2, <1>3, <1>4 DEF Next

LEMMA StepKeepsReviews == ASSUME DaemonInv, [Next]_vars PROVE ReviewInv'
<1> USE DaemonAssumption DEF ReviewInv, ReviewOK
<1>0. /\ ReviewInv /\ review \in [Inputs -> ReviewSteps] /\ DBTypeOK
      /\ noted \in [Inputs -> Dirs \X Statuses \X Outcomes]
      /\ \A t \in Inputs : DurableOK(t)
  BY DEF DaemonInv, WellFormed, FilesTyped, ResultInv, InputOK
<1>1. CASE ~Review
  BY <1>0, <1>1, AwaitingStays, OthersKeepReviewVars DEF reviewVars
<1>2. ASSUME NEW t \in Reviewed,
             \/ ReviewRead(t) \/ ReviewWrite(t) \/ ReviewGivesUp(t)
             \/ \E decision \in {"approved", "rejected"} : Decide(t, decision)
      PROVE  ReviewInv'
  <2>1. CASE ReviewRead(t)
    <3>1. dir[t] = "processed" /\ outcome[t] = "awaiting_review"
      BY <1>0, <2>1 DEF ReviewRead, DurableOK, OutcomeOf
    <3> QED
      BY <1>0, <2>1, <3>1 DEF ReviewRead, dbVars
  <2>2. CASE ReviewWrite(t) \/ ReviewGivesUp(t)
    BY <1>0, <2>2 DEF ReviewWrite, ReviewGivesUp, InputOnly, dbVars
  <2>3. ASSUME NEW decision \in {"approved", "rejected"}, Decide(t, decision)
        PROVE  ReviewInv'
    <3>1. UNCHANGED noted /\ review' = [review EXCEPT ![t] = decision]
      BY <2>3 DEF Decide
    <3>2. \A u \in Tasks \ {t} : state'[u] = state[u]
      BY <1>0, <2>3 DEF Decide, ApproveAwaitingReview, WriteState, DBTypeOK
    <3> QED
      BY <1>0, <3>1, <3>2
  <2> QED
    BY <1>2, <2>1, <2>2, <2>3
<1> QED
  BY <1>1, <1>2 DEF Review

LEMMA StepKeepsResults == ASSUME DaemonInv, [Next]_vars PROVE StateInv' /\ ResultInv'
<1>1. CASE Advance
  BY <1>1, AdvanceKeepsState, AdvanceKeepsInputs, AdvanceKeepsHand DEF ResultInv
<1>2. CASE Recover
  BY <1>2, RecoverKeepsState, RecoverKeepsResults
<1>3. CASE Poll \/ Crash \/ CallFails \/ \E t \in Inputs : Cleanup(t)
  BY <1>3, OthersKeepState, LoopKeepsResults
<1>4. CASE Ingress \/ \E t \in Tasks : Cancel(t)
  BY <1>4, OthersKeepState, OperatorKeepsResults, StageKeepsResults, ReadKeepsResults,
     WriteBackKeepsResults DEF Ingress
<1>5. CASE UNCHANGED vars
  <2>1. UNCHANGED <<state, at, task, goal, then, dir, status, outcome, ingest, seen, review>>
    BY <1>5 DEF vars, dbVars, storageVars, daemonVars, clientVars
  <2>2. StateInv /\ HandInv /\ \A t \in Inputs : InputOK(t)
    BY DEF DaemonInv, ResultInv
  <2>3. StateInv'
    BY <2>1, <2>2 DEF StateInv
  <2>4. HandInv'
    BY <2>1, <2>2 DEF HandInv, Recorded, Overwritten
  <2> QED
    BY <2>1, <2>2, <2>3, <2>4, MoveKeepsInputs DEF ResultInv
<1> QED
  BY <1>1, <1>2, <1>3, <1>4, <1>5, ReviewKeepsResults DEF Next

\* What the daemon knows of the two stores, wherever it is killed, whatever
\* call fails and whatever the ingress and the operators do meanwhile.
THEOREM DaemonInvariant == Spec => []DaemonInv
<1> DEFINE K == CallInv /\ FilesTyped /\ DBTypeOK
           J == MethodInv /\ StateInv /\ ResultInv /\ ReviewInv
<1>1. Init => FilesTyped
  BY DaemonAssumption
  DEF Init, StorageInit, FilesTyped, StorageTypeOK, IngressOnly, IngestSteps, ReviewSteps, Dirs,
      Statuses, Outcomes
<1>2. Init => J
  BY DaemonAssumption
  DEF Init, DBInit, StorageInit, MethodInv, Undoing, Completing, Suspending, GivingBack, Settling,
      InputSteps, InputCalls, StateInv, ResultInv, InputOK, RecordOK, IngressOK, DurableOK,
      Recorded, Verdicts, HandInv, ReviewInv, ReviewOK
<1>3. K /\ J /\ [Next]_vars => J'
  BY StepKeepsMethod, StepKeepsResults, StepKeepsReviews DEF DaemonInv, WellFormed
<1>4. Spec => []FilesTyped
  BY <1>1, StepFilesTyped, PTL DEF Spec
<1>5. Spec => []DBTypeOK
  BY DaemonImplementsStore, StoreTypeCorrect, PTL
<1>6. K /\ J => DaemonInv
  BY DEF DaemonInv, WellFormed
<1> HIDE DEF J
<1>7. Spec => []J
  BY <1>2, <1>3, <1>4, <1>5, CallsAreWellFormed, PTL DEF Spec
<1> QED
  BY <1>4, <1>5, <1>6, <1>7, CallsAreWellFormed, PTL

(***************************************************************************)
(* Whatever is killed, torn or failing, a task the scheduler reports as    *)
(* succeeded or awaiting review has its result recorded with its input, in *)
(* processed or removed by the retention.                                  *)
(***************************************************************************)
THEOREM ResultsAreDurable == Spec => []ResultIsDurable
<1>1. DaemonInv => ResultIsDurable
  BY DEF DaemonInv, ResultInv, InputOK, DurableOK, ResultIsDurable
<1> QED
  BY <1>1, DaemonInvariant, PTL

(***************************************************************************)
(* A handler only ever runs on an input that the daemon has claimed and    *)
(* that carries no result.                                                 *)
(***************************************************************************)
THEOREM HandlersOwnInputs == Spec => []HandlerOwnsInput
<1>1. DaemonInv => HandlerOwnsInput
  BY DEF DaemonInv, ResultInv, WellFormed, MethodInv, FilesTyped, StorageTypeOK, HandInv, Recorded,
         Verdicts, Outcomes, HandlerOwnsInput
<1> QED
  BY <1>1, DaemonInvariant, PTL

-----------------------------------------------------------------------------
\* A recorded result changes only under the hand of the ingress.
LEMMA AdvanceKeepsOutcome ==
  ASSUME DaemonInv, Advance, NEW t \in Inputs \ IngressTasks, Recorded(t)
  PROVE  outcome'[t] = outcome[t]
<1>0. StorageTypeOK /\ HandInv
  BY DEF DaemonInv, WellFormed, FilesTyped, ResultInv
<1>1. CASE t # task
  BY <1>0, <1>1, AdvanceFiles DEF FileCall, Move, SetStatus, SetOutcome, Release, Tear, storageVars,
     StorageTypeOK
<1>2. CASE t = task
  <2>1. CASE RequeueInput \/ ReleaseInput
    BY <1>2, <2>1, HandIsClean DEF RequeueInput, ReleaseInput, GivingBack
  <2>2. CASE CompleteInput
    <3>1. CASE dir[task] = "processing" /\ goal \in DOMAIN OutcomeOf
      <4>1. outcome[task] = OutcomeOf[goal]
        BY <1>0, <1>2, <2>2, <3>1 DEF CompleteInput, HandInv, OutcomeOf
      <4> QED
        BY <1>0, <1>2, <2>2, <3>1, <4>1 DEF CompleteInput, SetOutcome, StorageTypeOK
    <3>2. CASE ~(dir[task] = "processing" /\ goal \in DOMAIN OutcomeOf)
      BY <2>2, <3>2 DEF CompleteInput, SetStatus, storageVars
    <3> QED
      BY <3>1, <3>2
  <2>3. CASE MarkProcessed
    <3>1. goal \in DOMAIN OutcomeOf => outcome[task] = OutcomeOf[goal]
      BY <1>0, <1>2, <2>3 DEF MarkProcessed, HandInv, OutcomeOf, Overwritten
    <3> QED
      BY <1>0, <1>2, <2>3, <3>1 DEF MarkProcessed, StorageTypeOK
  <2>4. CASE ~(RequeueInput \/ ReleaseInput \/ CompleteInput \/ MarkProcessed)
    BY <2>4 DEF Advance, RejectManifest, ClaimInput, ClaimWrite, StartRefused, Start,
       HandlerReturns, Requeue, RequeueWrite, RecordReady, Complete, CompleteWrite, CloseAll,
       Suspend, Close, SuspendWrite, ToIncoming, ToProcessed, Move, SetStatus, DBOnly, storageVars
  <2> QED
    BY <2>1, <2>2, <2>3, <2>4
<1> QED
  BY <1>1, <1>2

LEMMA OthersKeepOutcome ==
  ASSUME DaemonInv, [Next]_vars, ~Advance, NEW t \in Inputs \ IngressTasks, Recorded(t)
  PROVE  outcome'[t] = outcome[t]
<1> USE DaemonAssumption
<1>0. StorageTypeOK /\ InputOK(t) /\ IngressOnly
  BY DEF DaemonInv, WellFormed, FilesTyped, ResultInv
<1>1. CASE Recover \/ Poll \/ Crash \/ CallFails \/ \E u \in Inputs : Cleanup(u)
  BY <1>1 DEF Recover, Restart, RecoverTorn, RecoverRetry, RecoverResult, RecoverInFlight,
     RecoverInput, Poll, Sleep, Claim, Promote, Crash, CallFails, Cleanup, Tear, Move, DBOnly,
     vars, storageVars
<1>2. ASSUME NEW u \in Tasks, Stage(u) PROVE outcome'[t] = outcome[t]
  <2>1. ingest[t] # "new"
    BY <1>0 DEF InputOK, IngressOK, RecordOK
  <2> QED
    BY <1>0, <1>2, <2>1 DEF Stage, StageInput, StorageTypeOK
<1>3. ASSUME NEW u \in Tasks, MarkWrite(u) PROVE outcome'[t] = outcome[t]
  BY <1>0, <1>3 DEF MarkWrite, IngressOnly, StorageTypeOK, storageVars
<1>4. ASSUME NEW u \in Tasks,
             Enqueue(u) \/ RejectImage(u) \/ MarkRead(u) \/ CancelRejected(u) \/ Cancel(u)
      PROVE  outcome' = outcome
  BY <1>4 DEF Enqueue, RejectImage, MarkRead, CancelRejected, Cancel, DBOnly, storageVars
<1>5. CASE UNCHANGED vars
  BY <1>5 DEF vars, storageVars
<1>6. CASE Review
  <2>1. PICK u \in Reviewed : \/ ReviewRead(u) \/ ReviewWrite(u) \/ ReviewGivesUp(u)
                             \/ \E decision \in {"approved", "rejected"} : Decide(u, decision)
    BY <1>6 DEF Review
  <2>2. CASE ReviewWrite(u)
    <3>1. noted[u][3] = outcome[u]
      BY <2>2 DEF ReviewWrite, DaemonInv, ReviewInv, ReviewOK, ResultInv, InputOK, DurableOK,
         OutcomeOf
    <3> QED
      BY <1>0, <2>2, <3>1 DEF ReviewWrite, StorageTypeOK
  <2>3. CASE ~ReviewWrite(u)
    BY <2>1, <2>3 DEF ReviewRead, ReviewGivesUp, Decide, DBOnly, storageVars
  <2> QED
    BY <2>2, <2>3
<1> QED
  BY <1>1, <1>2, <1>3, <1>4, <1>5, <1>6 DEF Next, Ingress

(***************************************************************************)
(* Once the result of an input is recorded, no kill, recovery, failing     *)
(* call, cancellation or retention changes it; only the ingress, marking a *)
(* task of its own, may write an older outcome over it.                    *)
(***************************************************************************)
THEOREM RecordedResultsStay ==
  Spec => [][\A t \in Inputs \ IngressTasks : Recorded(t) => outcome'[t] = outcome[t]]_vars
<1>1. DaemonInv /\ [Next]_vars =>
        [\A t \in Inputs \ IngressTasks : Recorded(t) => outcome'[t] = outcome[t]]_vars
  BY AdvanceKeepsOutcome, OthersKeepOutcome
<1> QED
  BY <1>1, DaemonInvariant, PTL DEF Spec

\* Without the retired ingress, no recorded result is ever taken back.
THEOREM ResultsAreFinal == ASSUME IngressTasks = {} PROVE Spec => ResultIsFinal
<1>1. DaemonInv /\ [Next]_vars =>
        [\A t \in Inputs : outcome[t] \in {"succeeded", "failed", "awaiting_review"}
                             => outcome'[t] = outcome[t]]_vars
  BY AdvanceKeepsOutcome, OthersKeepOutcome DEF Recorded, Verdicts
<1> QED
  BY <1>1, DaemonInvariant, PTL DEF Spec, ResultIsFinal

-----------------------------------------------------------------------------
(***************************************************************************)
(* The transition table.  Several methods read a state, and write the next *)
(* one with an unconditional UPDATE; a task cancelled in between would be  *)
(* brought back.  While nobody cancels, the daemon that is killed and      *)
(* restarted at any point still only makes legal moves.                    *)
(***************************************************************************)
NobodyCancels == Cancellable = {} /\ IngressTasks = {}

NoneCancelled == \A t \in Tasks : state[t] # "cancelled"

\* A legal move of one task implements the table and cancels nothing.
LEMMA LegalMove ==
  ASSUME DaemonInv, NoneCancelled, NEW t \in Tasks, NEW s,
         state[t] \in DOMAIN STATE_TRANSITIONS, s \in STATE_TRANSITIONS[state[t]], s # "cancelled",
         state' = [state EXCEPT ![t] = s]
  PROVE  Lifecycle!Next /\ NoneCancelled'
  BY DEF DaemonInv, WellFormed, DBTypeOK, NoneCancelled, Lifecycle!Next, Lifecycle!Move,
     Lifecycle!Successors

LEMMA AdvanceLegal ==
  ASSUME DaemonInv, NoneCancelled, Advance
  PROVE  [Lifecycle!Next]_state /\ NoneCancelled'
<1>1. CASE UNCHANGED state
  BY <1>1 DEF NoneCancelled
<1>2. ASSUME state' # state
      PROVE  \E s : /\ task \in Tasks
                    /\ state[task] \in DOMAIN STATE_TRANSITIONS
                    /\ s \in STATE_TRANSITIONS[state[task]] /\ s # "cancelled"
                    /\ state' = [state EXCEPT ![task] = s]
  <2>1. at \notin {"idle", "down"} /\ task \in Tasks => state[task] # "cancelled"
    BY DEF NoneCancelled
  <2>2. CASE RejectManifest
    BY <1>2, <2>2, HandExists DEF RejectManifest, FailClaimedTask, WriteState, STATE_TRANSITIONS,
       dbVars
  <2>3. ASSUME NEW w \in Workers, Start(w)
        PROVE  /\ task \in Tasks /\ state[task] = "claimed"
               /\ state' = [state EXCEPT ![task] = "running"]
    BY <2>3, HandExists DEF Start, StartTask, StartAllowed
  <2>4. CASE RequeueWrite
    <3>1. state[task] = "claimed" /\ task \in Tasks
      BY <2>1, <2>4, HandExists DEF RequeueWrite, DaemonInv, StateInv, Undoing
    <3>2. state' = [state EXCEPT ![task] = "retry_wait"]
      BY <2>4 DEF RequeueWrite, WriteState
    <3>3. "claimed" \in DOMAIN STATE_TRANSITIONS /\ "retry_wait" \in STATE_TRANSITIONS["claimed"]
      BY DEF STATE_TRANSITIONS
    <3> QED
      BY <3>1, <3>2, <3>3
  <2>5. CASE CompleteWrite \/ SuspendWrite
    <3>1. state[task] = "running" /\ task \in Tasks
      BY <2>5, HandExists DEF CompleteWrite, SuspendWrite, DaemonInv, StateInv, Completing,
         Suspending
    <3>2. goal \in {"retry_wait", "succeeded", "failed_terminal", "awaiting_review"}
      BY <2>5 DEF CompleteWrite, SuspendWrite, DaemonInv, WellFormed, MethodInv, Completing,
         Suspending
    <3> QED
      BY <2>5, <3>1, <3>2 DEF CompleteWrite, SuspendWrite, WriteState, STATE_TRANSITIONS
  <2>6. \/ RejectManifest \/ (\E w \in Workers : Start(w)) \/ RequeueWrite
        \/ CompleteWrite \/ SuspendWrite
    BY <1>2 DEF Advance, ClaimInput, ClaimWrite, StartRefused, HandlerReturns, Requeue,
       RecordReady, RecordP40ReadyIfNeeded, Complete, CloseAll, Suspend, Close, CloseAttempt,
       RequeueInput, ToIncoming, ReleaseInput, CompleteInput, ToProcessed, MarkProcessed,
       InputOnly, dbVars
  <2> QED
    BY <2>2, <2>3, <2>4, <2>5, <2>6 DEF STATE_TRANSITIONS
<1> QED
  BY <1>1, <1>2, LegalMove

LEMMA OthersLegal ==
  ASSUME NobodyCancels, DaemonInv, NoneCancelled, [Next]_vars, ~Advance
  PROVE  [Lifecycle!Next]_state /\ NoneCancelled'
<1>1. CASE UNCHANGED state
  BY <1>1 DEF NoneCancelled
<1>2. ASSUME NEW t \in Tasks, Claim(t) \/ Promote(t)
      PROVE  [Lifecycle!Next]_state /\ NoneCancelled'
  BY <1>2, LegalMove DEF Claim, ClaimTask, Promote, WriteState, STATE_TRANSITIONS
<1>3. ASSUME NEW t \in Tasks, Enqueue(t)
      PROVE  [Lifecycle!Next]_state /\ NoneCancelled'
  BY <1>3 DEF Enqueue, AddTask, WriteState, DaemonInv, WellFormed, DBTypeOK, NoneCancelled,
     Lifecycle!Next, Lifecycle!Insert
<1>4. ASSUME NEW t \in Tasks PROVE ~Cancel(t) /\ ~CancelRejected(t)
  BY DEF Cancel, CancelRejected, NobodyCancels, DaemonInv, WellFormed, FilesTyped, IngressOnly
<1>5. Recover \/ Crash \/ CallFails \/ UNCHANGED vars => UNCHANGED state
  BY RecoverStoreStep DEF Crash, CallFails, InputOnly, dbVars, vars
<1>6. ASSUME NEW t, Cleanup(t) \/ Stage(t) \/ RejectImage(t) \/ MarkRead(t) \/ MarkWrite(t)
      PROVE  UNCHANGED state
  BY <1>6 DEF Cleanup, Stage, RejectImage, MarkRead, MarkWrite, InputOnly, dbVars
<1>7. ASSUME NEW t \in Reviewed,
             \/ ReviewRead(t) \/ ReviewWrite(t) \/ ReviewGivesUp(t)
             \/ \E decision \in {"approved", "rejected"} : Decide(t, decision)
      PROVE  [Lifecycle!Next]_state /\ NoneCancelled'
  <2>1. CASE ReviewRead(t) \/ ReviewWrite(t) \/ ReviewGivesUp(t)
    BY <1>1, <2>1 DEF ReviewRead, ReviewWrite, ReviewGivesUp, InputOnly, dbVars
  <2>2. ASSUME NEW decision \in {"approved", "rejected"}, Decide(t, decision)
        PROVE  [Lifecycle!Next]_state /\ NoneCancelled'
    <3>1. /\ state[t] = "awaiting_review" /\ t \in Tasks
          /\ WriteState(t, "succeeded") \/ WriteState(t, "failed_terminal")
      BY <2>2, DaemonAssumption DEF Decide, ApproveAwaitingReview
    <3> QED
      BY <3>1, LegalMove DEF WriteState, STATE_TRANSITIONS
  <2> QED
    BY <1>7, <2>1, <2>2
<1> QED
  BY <1>1, <1>2, <1>3, <1>4, <1>5, <1>6, <1>7
  DEF Next, Poll, Sleep, Ingress, Review, vars, dbVars

(***************************************************************************)
(* The daemon, its recovery included, implements the life cycle of a task: *)
(* for every number of tasks and kills, torn files and failing calls, as   *)
(* long as nobody cancels a task it is working on.                         *)
(***************************************************************************)
THEOREM DaemonFollowsLifecycle == ASSUME NobodyCancels PROVE Spec => FollowsLifecycle
<1>1. Init => Lifecycle!Init /\ NoneCancelled
  BY DEF Init, DBInit, Lifecycle!Init, NoneCancelled
<1>2. DaemonInv /\ NoneCancelled /\ [Next]_vars => [Lifecycle!Next]_state /\ NoneCancelled'
  BY AdvanceLegal, OthersLegal
<1> QED
  BY <1>1, <1>2, DaemonInvariant, PTL DEF Spec, FollowsLifecycle, Lifecycle!Spec

-----------------------------------------------------------------------------
(***************************************************************************)
(* The recovery reconciles the two stores.  Three things would disturb it: *)
(* the ingress marking an input while the daemon handles it, a call that   *)
(* fails and leaves the task as it is until the next restart, and a kill   *)
(* between the move of a claim and its write, which leaves an input in     *)
(* processing marked accepted.  A cancellation may leave the input of the  *)
(* cancelled task behind, and of no other.                                 *)
(***************************************************************************)
Undisturbed ==
  /\ IngressTasks = {}
  /\ FaultPoints = {}
  /\ "claimWrite" \notin CrashPoints

Uncancelled == Cancellable \cap Inputs = {}

\* What a kill may leave of an input: enough for the recovery to tell from
\* the metadata and the state where the input is and what has to be done.
Coherent(t) ==
  /\ dir[t] = "processing" /\ ~(at = "claimWrite" /\ task = t) => status[t] = "processing"
  /\ status[t] \in {"accepted", "processing", "processed"}
  /\ InFlight(t) => dir[t] # "none"
  /\ InFlight(t) /\ dir[t] = "processed" => Recorded(t)
  /\ InFlight(t) /\ dir[t] = "incoming" /\ status[t] # "accepted" => outcome[t] = "retry_wait"
  /\ state[t] = "retry_wait" => dir[t] \in {"incoming", "processing"}
  /\ state[t] = "queued" => Claimable(t)
  /\ state[t] = "absent" => ingest[t] = "new" \/ (ingest[t] = "staged" /\ Claimable(t))
  /\ Uncancelled => state[t] # "cancelled"

\* An input the daemon or its recovery still has to see ...
Pending(t) == \/ at = "down"
              \/ t \in todo
              \/ at \notin {"idle", "down"} /\ task = t

\* ... and one on which the two stores agree.
Settled(t) ==
  /\ state[t] \in {"queued", "retry_wait"} => Claimable(t)
  /\ ~InFlight(t)
  /\ state[t] \in {"succeeded", "failed_terminal", "awaiting_review"} => dir[t] # "processing"

\* The input at hand, as far as the rest of the methods relies on it.
CarryInv == at \notin {"idle", "down"} /\ task \in Inputs =>
  /\ at = "claimed" => Claimable(task)
  /\ at = "claimWrite" => status[task] = "accepted"
  /\ at \in Undoing \cup Suspending \cup {"recordReady"} /\ goal = "retry_wait" =>
       IF then = "idle" THEN Claimable(task) ELSE dir[task] = "processing"
  /\ at = "requeueInput" => dir[task] \in {"processing", "incoming"}
  /\ at = "toIncoming" => outcome[task] = "retry_wait"

ReconciledInv ==
  /\ \A t \in Inputs : Coherent(t) /\ (Pending(t) \/ Settled(t))
  /\ CarryInv

\* An input nobody touches stays as it was.
LEMMA UntouchedInput ==
  ASSUME NEW t, Coherent(t),
         /\ state'[t] = state[t] /\ dir'[t] = dir[t] /\ status'[t] = status[t]
         /\ outcome'[t] = outcome[t] /\ ingest'[t] = ingest[t],
         at = "claimWrite" /\ task = t => at' = "claimWrite" /\ task' = t
  PROVE  Coherent(t)' /\ (Settled(t) => Settled(t)')
  BY DEF Coherent, Settled, InFlight, Claimable, Recorded

\* The daemon strikes from its list only the task at hand, when it is done.
LEMMA AdvanceStrikes == ASSUME Advance PROVE todo \ {task} \subseteq todo'
<1> USE DEF Goto, Call, Proceed, GiveUp, Return
<1>1. CASE RejectManifest \/ Requeue \/ Complete \/ Suspend
  BY <1>1 DEF RejectManifest, Requeue, Complete, Suspend
<1>2. CASE ClaimInput \/ ClaimWrite \/ StartRefused
  BY <1>2 DEF ClaimInput, ClaimWrite, StartRefused
<1>3. ASSUME NEW w, Start(w) PROVE todo \ {task} \subseteq todo'
  BY <1>3 DEF Start
<1>4. ASSUME NEW s, HandlerReturns(s) PROVE todo \ {task} \subseteq todo'
  BY <1>4 DEF HandlerReturns
<1>5. CASE RequeueWrite \/ CompleteWrite \/ CloseAll \/ Close \/ ToIncoming \/ ToProcessed
  BY <1>5 DEF RequeueWrite, CompleteWrite, CloseAll, Close, ToIncoming, ToProcessed
<1>6. CASE RecordReady \/ SuspendWrite \/ ReleaseInput \/ MarkProcessed
  BY <1>6 DEF RecordReady, SuspendWrite, ReleaseInput, MarkProcessed
<1>7. CASE RequeueInput \/ CompleteInput
  BY <1>7 DEF RequeueInput, CompleteInput
<1> QED
  BY <1>1, <1>2, <1>3, <1>4, <1>5, <1>6, <1>7 DEF Advance

LEMMA AdvanceOtherInputs ==
  ASSUME DaemonInv, ReconciledInv, Advance, NEW t \in Inputs, t # task
  PROVE  Coherent(t)' /\ (Pending(t)' \/ Settled(t)')
<1>1. at \notin {"idle", "down"}
  BY DEF Advance, RejectManifest, ClaimInput, ClaimWrite, Start, StartRefused, HandlerReturns,
     Requeue, RequeueWrite, RecordReady, Complete, CompleteWrite, CloseAll, Suspend, Close,
     SuspendWrite, RequeueInput, ToIncoming, ReleaseInput, CompleteInput, ToProcessed,
     MarkProcessed
<1>2. state'[t] = state[t] /\ ingest' = ingest /\ task' = task
  BY AdvanceOneState, AdvanceMoves, DaemonAssumption DEF clientVars
<1>3. dir'[t] = dir[t] /\ status'[t] = status[t] /\ outcome'[t] = outcome[t]
  BY AdvanceFiles DEF FileCall, Move, SetStatus, SetOutcome, Release, Tear, storageVars,
     DaemonInv, WellFormed, FilesTyped, StorageTypeOK
<1>4. Coherent(t)' /\ (Settled(t) => Settled(t)')
  BY <1>2, <1>3, UntouchedInput DEF ReconciledInv
<1>5. Pending(t) => Pending(t)'
  BY <1>1, AdvanceStrikes DEF Pending
<1> QED
  BY <1>4, <1>5 DEF ReconciledInv

\* What a step on the input at hand must establish.
HandReconciled == Coherent(task) /\ (at = "idle" => Settled(task)) /\ CarryInv

\* Dispatch: the claim, the start, and the return of the handler.
LEMMA DispatchReconciles ==
  ASSUME DaemonInv, ReconciledInv, task \in Inputs,
         \/ RejectManifest \/ ClaimInput \/ ClaimWrite \/ (\E w \in Workers : Start(w))
         \/ StartRefused \/ (\E s \in DOMAIN OutcomeOf : HandlerReturns(s))
  PROVE  HandReconciled'
<1> USE DaemonAssumption DEF HandReconciled, Undoing, Suspending
<1>0. /\ StorageTypeOK /\ DBTypeOK /\ MethodInv /\ StateInv /\ HandInv /\ Coherent(task) /\ CarryInv
      /\ task \in Tasks
  BY DEF DaemonInv, WellFormed, FilesTyped, ResultInv, ReconciledInv
<1>1. CASE RejectManifest
  <2>1. /\ at' = "idle" /\ UNCHANGED <<task, ingest, dir, status, outcome>>
        /\ at = "claimed" /\ Claimable(task)
    BY <1>0, <1>1 DEF RejectManifest, GiveUp, DBOnly, storageVars, clientVars, CarryInv
  <2>2. state[task] \in {"claimed", "cancelled"}
    BY <1>0, <2>1 DEF StateInv
  <2>3. \/ state'[task] = "failed_terminal"
        \/ state'[task] = state[task] /\ state[task] = "cancelled"
    BY <1>0, <1>1, <2>2 DEF RejectManifest, FailClaimedTask, WriteState, DBTypeOK, dbVars
  <2> QED
    BY <1>0, <2>1, <2>3 DEF Coherent, CarryInv, Settled, Claimable, InFlight, FinalStates
<1>2. CASE ClaimInput
  <2>1. at = "claimed" /\ Claimable(task)
    BY <1>0, <1>2 DEF ClaimInput, CarryInv
  <2>2. /\ at' = "claimWrite" /\ UNCHANGED <<task, ingest, state, status, outcome>>
        /\ dir'[task] = "processing"
    BY <1>0, <1>2, <2>1 DEF ClaimInput, Goto, Move, InputOnly, dbVars, clientVars, StorageTypeOK
  <2>3. state[task] \in {"claimed", "cancelled"}
    BY <1>0, <2>1 DEF StateInv
  <2> QED
    BY <1>0, <2>1, <2>2, <2>3 DEF Coherent, CarryInv, Claimable, InFlight
<1>3. CASE ClaimWrite
  <2>1. /\ at' = "start" /\ UNCHANGED <<task, ingest, state, dir, outcome>>
        /\ dir[task] = "processing" /\ status'[task] = "processing"
        /\ at = "claimWrite"
    BY <1>0, <1>3 DEF ClaimWrite, Goto, SetStatus, InputOnly, dbVars, clientVars, StorageTypeOK,
       HandInv
  <2>2. state[task] \in {"claimed", "cancelled"}
    BY <1>0, <2>1 DEF StateInv
  <2> QED
    BY <1>0, <2>1, <2>2 DEF Coherent, CarryInv, InFlight
<1>4. ASSUME NEW w \in Workers, Start(w) PROVE HandReconciled'
  <2>1. /\ at' = "running" /\ UNCHANGED <<task, ingest, dir, status, outcome>>
        /\ dir[task] = "processing" /\ state[task] = "claimed" /\ state'[task] = "running"
        /\ at = "start"
    BY <1>0, <1>4 DEF Start, StartTask, StartAllowed, Goto, DBOnly, storageVars, clientVars,
       DBTypeOK, HandInv
  <2> QED
    BY <1>0, <2>1 DEF Coherent, CarryInv, InFlight
<1>5. CASE StartRefused
  <2>1. /\ at' = "requeueInput" /\ UNCHANGED <<task, ingest, state, dir, status, outcome>>
        /\ dir[task] = "processing" /\ at = "start"
    BY <1>0, <1>5 DEF StartRefused, Call, dbVars, storageVars, clientVars, HandInv
  <2> QED
    BY <1>0, <2>1 DEF Coherent, CarryInv, InFlight, Recorded, Claimable
<1>6. ASSUME NEW s \in DOMAIN OutcomeOf, HandlerReturns(s) PROVE HandReconciled'
  <2>1. /\ at' \in {"requeueInput", "completeInput"}
        /\ UNCHANGED <<task, ingest, state, dir, status, outcome>>
        /\ dir[task] = "processing" /\ at = "running"
    BY <1>0, <1>6 DEF HandlerReturns, Call, dbVars, storageVars, clientVars, HandInv
  <2> QED
    BY <1>0, <2>1 DEF Coherent, CarryInv, InFlight, Recorded, Claimable
<1> QED
  BY <1>1, <1>2, <1>3, <1>4, <1>5, <1>6

\* The methods of the scheduler.
LEMMA SchedulerReconciles ==
  ASSUME DaemonInv, ReconciledInv, task \in Inputs,
         \/ Requeue \/ RequeueWrite \/ RecordReady
         \/ Complete \/ CompleteWrite \/ CloseAll
         \/ Suspend \/ Close \/ SuspendWrite
  PROVE  HandReconciled'
<1> USE DaemonAssumption DEF HandReconciled, Undoing, Suspending, Completing
<1>0. /\ StorageTypeOK /\ DBTypeOK /\ MethodInv /\ StateInv /\ HandInv /\ Coherent(task) /\ CarryInv
      /\ task \in Tasks
  BY DEF DaemonInv, WellFormed, FilesTyped, ResultInv, ReconciledInv
<1>1. UNCHANGED <<task, goal, ingest, dir, status, outcome>>
  BY DEF Requeue, RequeueWrite, RecordReady, Complete, CompleteWrite, CloseAll, Suspend, Close,
     SuspendWrite, Goto, GiveUp, Proceed, DBOnly, storageVars, clientVars
<1>2. CASE Requeue \/ Complete \/ Suspend
  <2>1. state' = state
        /\ \/ /\ then' = then
              /\ \/ at = "requeue" /\ at' = "requeueWrite"
                 \/ at = "complete" /\ at' = "completeWrite"
                 \/ at = "suspend" /\ at' = "close"
           \/ at = "requeue" /\ at' = "idle" /\ state[task] = "cancelled"
    BY <1>0, <1>2 DEF Requeue, Complete, Suspend, Goto, GiveUp, dbVars, StateInv
  <2> QED
    BY <1>0, <1>1, <2>1 DEF Coherent, CarryInv, Settled, InFlight, Recorded, Claimable
<1>3. CASE RequeueWrite
  <2>1. at = "requeueWrite" /\ at' = "recordReady" /\ then' = then /\ goal = "retry_wait"
        /\ state'[task] = "retry_wait"
    BY <1>0, <1>3 DEF RequeueWrite, WriteState, Goto, DBTypeOK, MethodInv
  <2> QED
    BY <1>0, <1>1, <2>1 DEF Coherent, CarryInv, InFlight, Claimable
<1>4. CASE CompleteWrite \/ CloseAll \/ Close
  <2>1. /\ then' = then
        /\ \/ at = "completeWrite" /\ at' = "closeAll" /\ state'[task] = goal
           \/ at = "closeAll" /\ at' = "recordReady" /\ state' = state
           \/ at = "close" /\ at' = "suspendWrite" /\ state' = state
    BY <1>0, <1>4 DEF CompleteWrite, CloseAll, Close, WriteState, CloseAttempt, Goto, DBTypeOK
  <2>2. at \in {"completeWrite", "closeAll"} => goal \in {"succeeded", "failed_terminal"}
    BY <1>0 DEF MethodInv
  <2> QED
    BY <1>0, <1>1, <2>1, <2>2 DEF Coherent, CarryInv, InFlight, Claimable, Recorded
<1>5. CASE RecordReady \/ SuspendWrite
  <2>1. /\ at' = then /\ then \in {"idle", "requeueInput"}
        /\ then = "requeueInput" => goal = "retry_wait"
        /\ at \in {"recordReady", "suspendWrite"}
        /\ state'[task] = goal
    BY <1>0, <1>5 DEF RecordReady, RecordP40ReadyIfNeeded, SuspendWrite, WriteState, Proceed,
       DBTypeOK, StateInv, MethodInv
  <2>2. goal \in {"retry_wait", "succeeded", "failed_terminal", "awaiting_review"}
    BY <2>1 DEF DaemonInv, WellFormed, CallInv, OutcomeOf, InputSteps, InputCalls
  <2>3. goal # "retry_wait" => dir[task] \in {"processed", "none"}
    BY <1>0, <2>1 DEF HandInv, Reporting
  <2>4. goal = "retry_wait" =>
          IF then = "idle" THEN Claimable(task) ELSE dir[task] = "processing"
    BY <1>0, <2>1 DEF CarryInv
  <2> QED
    BY <1>0, <1>1, <2>1, <2>2, <2>3, <2>4
    DEF Coherent, CarryInv, Settled, InFlight, Claimable, FinalStates
<1> QED
  BY <1>2, <1>3, <1>4, <1>5

\* Giving an input back.
LEMMA GivingBackReconciles ==
  ASSUME DaemonInv, ReconciledInv, task \in Inputs, RequeueInput \/ ToIncoming \/ ReleaseInput
  PROVE  HandReconciled'
<1> USE DaemonAssumption DEF HandReconciled, Undoing, Suspending
<1>0. /\ StorageTypeOK /\ MethodInv /\ StateInv /\ HandInv /\ Coherent(task) /\ CarryInv
  BY DEF DaemonInv, WellFormed, FilesTyped, ResultInv, ReconciledInv
<1>1. UNCHANGED <<task, goal, ingest, state>>
  BY DEF RequeueInput, ToIncoming, ReleaseInput, Goto, GiveUp, Proceed, InputOnly, dbVars,
     clientVars
<1>2. /\ at \in GivingBack
      /\ then = "idle" => state[task] = "retry_wait"
      /\ then # "idle" => goal = "retry_wait" /\ then \in {"requeue", "suspend"}
      /\ state[task] \in {"claimed", "running", "retry_wait", "cancelled"}
  BY <1>0 DEF RequeueInput, ToIncoming, ReleaseInput, GivingBack, MethodInv, StateInv, InputSteps,
     InputCalls, Coherent
<1>3. CASE \/ RequeueInput /\ dir[task] = "processing"
           \/ ToIncoming
  <2>1. /\ outcome'[task] = "retry_wait" /\ UNCHANGED <<status, then>>
        /\ \/ at' = "toIncoming" /\ dir' = dir
           \/ at' = "release" /\ dir'[task] = "incoming"
        /\ dir[task] = "processing" /\ at # "claimWrite"
    BY <1>0, <1>3 DEF RequeueInput, ToIncoming, SetOutcome, Move, Goto, StorageTypeOK, HandInv,
       CarryInv
  <2> QED
    BY <1>0, <1>1, <1>2, <2>1 DEF Coherent, CarryInv, InFlight, Recorded, Claimable
<1>4. CASE \/ RequeueInput /\ dir[task] # "processing"
           \/ ReleaseInput
  <2>1. dir[task] = "incoming"
    BY <1>0, <1>4 DEF RequeueInput, ReleaseInput, CarryInv, HandInv
  <2>2. /\ status'[task] = "accepted" /\ outcome'[task] = "retry_wait" /\ dir' = dir
        /\ at' = then /\ then' = "idle"
    BY <1>0, <1>4, <2>1 DEF RequeueInput, ReleaseInput, Release, Proceed, StorageTypeOK
  <2> QED
    BY <1>0, <1>1, <1>2, <2>1, <2>2
    DEF Coherent, CarryInv, Settled, InFlight, Recorded, Claimable, FinalStates
<1> QED
  BY <1>3, <1>4

\* Settling an input.
LEMMA SettlingReconciles ==
  ASSUME Undisturbed, DaemonInv, ReconciledInv, task \in Inputs,
         CompleteInput \/ ToProcessed \/ MarkProcessed
  PROVE  HandReconciled'
<1> USE DaemonAssumption DEF HandReconciled, Undoing, Suspending
<1>0. /\ StorageTypeOK /\ MethodInv /\ StateInv /\ HandInv /\ Coherent(task) /\ CarryInv
      /\ RecordOK(task)
  BY DEF DaemonInv, WellFormed, FilesTyped, ResultInv, ReconciledInv, InputOK
<1>1. UNCHANGED <<task, goal, ingest, state>>
  BY DEF CompleteInput, ToProcessed, MarkProcessed, Goto, GiveUp, Proceed, InputOnly, dbVars,
     clientVars
<1>2. /\ at \in Settling
      /\ \/ then = "idle" /\ goal = "none" /\ state[task] \in FinalStates \cup {"awaiting_review"}
         \/ /\ then \in {"complete", "suspend"}
            /\ goal \in {"succeeded", "failed_terminal", "awaiting_review"}
            /\ state[task] = "running"
  BY <1>0 DEF CompleteInput, ToProcessed, MarkProcessed, Settling, MethodInv, StateInv, InputSteps,
     InputCalls
<1>3. goal # "none" => goal \in DOMAIN OutcomeOf /\ OutcomeOf[goal] \in Verdicts
  BY <1>2 DEF OutcomeOf, Verdicts
<1>4. CASE CompleteInput
  <2>1. CASE dir[task] = "processing"
    <3>1. at' = "toProcessed" /\ UNCHANGED <<dir, status>>
      BY <1>4, <2>1 DEF CompleteInput, Goto, SetOutcome, storageVars
    <3> QED
      BY <1>0, <1>1, <1>2, <1>4, <2>1, <3>1
      DEF Coherent, CarryInv, InFlight, Claimable, FinalStates, CompleteInput
  <2>2. CASE dir[task] = "processed"
    <3>1. /\ at' = then /\ UNCHANGED <<dir, outcome>> /\ status'[task] = "processed"
      BY <1>0, <1>4, <2>2 DEF CompleteInput, SetStatus, Proceed, StorageTypeOK
    <3> QED
      BY <1>0, <1>1, <1>2, <2>2, <3>1
      DEF Coherent, CarryInv, Settled, InFlight, Claimable, FinalStates, Recorded
  <2>3. CASE dir[task] \notin {"processing", "processed"}
    <3>1. at' = "idle" /\ UNCHANGED <<dir, status, outcome>>
      BY <1>4, <2>3 DEF CompleteInput, GiveUp, storageVars
    <3>2. state[task] # "running"
      <4>1. state[task] = "running" => outcome[task] = OutcomeOf[goal]
        BY <1>0, <1>2, <1>4, <2>3 DEF CompleteInput, HandInv, FinalStates
      <4>2. state[task] = "running" => dir[task] \notin {"none", "incoming"}
        BY <1>0, <1>2, <1>3, <4>1 DEF Coherent, InFlight, RecordOK, Recorded, FinalStates
      <4> QED
        BY <1>0, <2>3, <4>2 DEF StorageTypeOK, Dirs
    <3> QED
      BY <1>0, <1>1, <1>2, <1>4, <2>3, <3>1, <3>2
      DEF Coherent, CarryInv, Settled, InFlight, Claimable, FinalStates, Recorded, CompleteInput
  <2> QED
    BY <2>1, <2>2, <2>3
<1>5. CASE ToProcessed \/ MarkProcessed
  <2>1. goal # "none" => outcome[task] = OutcomeOf[goal]
    BY <1>0, <1>5 DEF ToProcessed, MarkProcessed, HandInv, Overwritten, Undisturbed
  <2>2. /\ at \in {"toProcessed", "markProcessed"}
        /\ outcome'[task] = outcome[task] /\ dir'[task] = "processed"
        /\ \/ at' = "markProcessed" /\ status' = status
           \/ at' = then /\ status'[task] = "processed"
    BY <1>0, <1>3, <1>5, <2>1 DEF ToProcessed, MarkProcessed, Move, Goto, Proceed, StorageTypeOK,
       HandInv, OutcomeOf
  <2>3. goal # "none" => Recorded(task)
    BY <1>3, <2>1 DEF Recorded
  <2> QED
    BY <1>0, <1>1, <1>2, <2>2, <2>3
    DEF Coherent, CarryInv, Settled, InFlight, Claimable, FinalStates, Recorded
<1> QED
  BY <1>4, <1>5

LEMMA AdvanceReconciles ==
  ASSUME Undisturbed, DaemonInv, ReconciledInv, Advance
  PROVE  ReconciledInv'
<1>1. task' = task
  BY AdvanceMoves
<1>2. \A t \in Inputs : t # task => Coherent(t)' /\ (Pending(t)' \/ Settled(t)')
  BY AdvanceOtherInputs
<1>3. task \in Inputs => HandReconciled'
  BY DispatchReconciles, SchedulerReconciles, GivingBackReconciles, SettlingReconciles DEF Advance
<1>4. task \in Inputs => Coherent(task)' /\ (Pending(task)' \/ Settled(task)') /\ CarryInv'
  BY <1>1, <1>3 DEF HandReconciled, Pending
<1>5. task \notin Inputs => CarryInv'
  BY <1>1 DEF CarryInv
<1> QED
  BY <1>1, <1>2, <1>4, <1>5 DEF ReconciledInv

\* The recovery visits every input that is somewhere, and finds on each what
\* it needs to give it back, to settle it, or to leave it alone.
LEMMA RecoverReconciles == ASSUME DaemonInv, ReconciledInv, Recover PROVE ReconciledInv'
<1> USE DaemonAssumption
<1>0. /\ StorageTypeOK
      /\ \A t \in Inputs : Coherent(t) /\ (Pending(t) \/ Settled(t)) /\ RecordOK(t)
  BY DEF DaemonInv, WellFormed, FilesTyped, ResultInv, InputOK, ReconciledInv
<1>1. UNCHANGED <<state, dir, status, outcome, ingest>> /\ at \in {"idle", "down"}
  BY DEF Recover, Restart, RecoverTorn, RecoverRetry, RecoverResult, RecoverInFlight,
         RecoverInput, Visit, Die, Call, clientVars, dbVars, storageVars
<1>2. \A t \in Inputs : Coherent(t)' /\ (Settled(t) => Settled(t)')
  BY <1>0, <1>1, UntouchedInput
<1>3. CASE Restart
  <2>1. \A t \in Inputs : dir[t] = "none" => Settled(t)
    BY <1>0 DEF Coherent, Settled, Claimable, InFlight
  <2>2. at' = "idle" /\ todo' = {t \in Inputs : dir[t] # "none"}
    BY <1>3 DEF Restart
  <2> QED
    BY <1>2, <2>1, <2>2 DEF ReconciledInv, Pending, CarryInv
<1>4. ASSUME NEW t \in Inputs, RecoverTorn(t) PROVE ReconciledInv'
  BY <1>2, <1>4 DEF RecoverTorn, Die, ReconciledInv, Pending, CarryInv
<1>5. ASSUME NEW t \in Inputs, at = "idle", task' = t, at' \notin {"idle", "down"}, todo' = todo,
             CarryInv'
      PROVE  ReconciledInv'
  BY <1>0, <1>2, <1>5 DEF ReconciledInv, Pending
<1>6. ASSUME NEW t \in Inputs, RecoverRetry(t) \/ RecoverInFlight(t) PROVE ReconciledInv'
  <2>1. /\ at = "idle" /\ task' = t /\ todo' = todo /\ goal' = "retry_wait"
        /\ InFlight(t) /\ outcome[t] \in {"none", "retry_wait"}
    BY <1>6 DEF RecoverRetry, RecoverInFlight, Visit, Call
  <2>2. dir[t] \in {"processing", "incoming"}
    BY <1>0, <2>1 DEF Coherent, Recorded, Verdicts, StorageTypeOK, Dirs
  <2>3. \/ at' \in {"suspend", "requeue"} /\ then' = "idle" /\ status[t] = "accepted"
        \/ at' = "requeueInput"
        \/ /\ at' \in {"suspend", "requeue"} /\ then' = "requeueInput"
           /\ status[t] # "accepted" /\ outcome[t] = "none"
    BY <1>6 DEF RecoverRetry, RecoverInFlight, Call, ToRetry
  <2>4. status[t] = "accepted" => Claimable(t)
    BY <1>0, <2>1, <2>2 DEF Coherent, Claimable
  <2>5. status[t] # "accepted" /\ outcome[t] = "none" => dir[t] = "processing"
    BY <1>0, <2>1, <2>2 DEF Coherent
  <2>6. CarryInv'
    BY <1>1, <2>1, <2>2, <2>3, <2>4, <2>5 DEF CarryInv, Claimable, Undoing, Suspending
  <2> QED
    BY <1>5, <2>1, <2>3, <2>6
<1>7. ASSUME NEW t \in Inputs, RecoverResult(t) PROVE ReconciledInv'
  <2>1. /\ at = "idle" /\ task' = t /\ todo' = todo /\ goal' # "retry_wait"
        /\ at' \in {"complete", "suspend", "completeInput"}
    BY <1>7 DEF RecoverResult, Visit, Call, Finish
  <2> QED
    BY <1>5, <2>1 DEF CarryInv
<1>8. ASSUME NEW t \in Inputs, RecoverInput(t) PROVE ReconciledInv'
  <2>1. at = "idle" /\ ~InFlight(t)
    BY <1>8 DEF RecoverInput, Visit
  <2>2. CASE status[t] = "processing" /\ state[t] = "retry_wait"
    <3>1. task' = t /\ todo' = todo /\ at' = "requeueInput"
      BY <1>8, <2>2 DEF RecoverInput, Call, FinalStates
    <3>2. dir[t] \in {"incoming", "processing"}
      BY <1>0, <2>2 DEF Coherent
    <3> QED
      BY <1>1, <1>5, <2>1, <3>1, <3>2 DEF CarryInv, Undoing, Suspending
  <2>3. CASE status[t] = "processing" /\ state[t] \in FinalStates \cup {"awaiting_review"}
    <3>1. task' = t /\ todo' = todo /\ at' = "completeInput"
      BY <1>8, <2>3 DEF RecoverInput, Call, FinalStates
    <3> QED
      BY <1>5, <2>1, <3>1 DEF CarryInv, Undoing, Suspending
  <2>4. CASE ~(/\ status[t] = "processing"
               /\ state[t] \in {"retry_wait", "awaiting_review"} \cup FinalStates)
    <3>1. todo' = todo \ {t} /\ UNCHANGED <<at, task>>
      BY <1>8, <2>4 DEF RecoverInput
    <3>2. Settled(t)
      BY <1>0, <2>1, <2>4 DEF Coherent, RecordOK, Settled, Claimable, FinalStates
    <3> QED
      BY <1>0, <1>2, <2>1, <3>1, <3>2 DEF ReconciledInv, Pending, CarryInv
  <2> QED
    BY <2>2, <2>3, <2>4
<1> QED
  BY <1>3, <1>4, <1>6, <1>7, <1>8 DEF Recover

\* When the daemon polls, every input is settled.
LEMMA ReadyMeansSettled ==
  ASSUME ReconciledInv, Ready PROVE \A t \in Inputs : Coherent(t) /\ Settled(t)
  BY DEF ReconciledInv, Ready, Pending

LEMMA LoopReconciles ==
  ASSUME Undisturbed, DaemonInv, ReconciledInv,
         Poll \/ Crash \/ CallFails \/ (\E t \in Inputs : Cleanup(t))
  PROVE  ReconciledInv'
<1> USE DaemonAssumption
<1>0. /\ StorageTypeOK /\ DBTypeOK
      /\ \A t \in Inputs : Coherent(t)
  BY DEF DaemonInv, WellFormed, FilesTyped, ReconciledInv
<1>1. UNCHANGED ingest
  BY DEF Poll, Sleep, Claim, Promote, Crash, CallFails, Cleanup, Die, GiveUp, Call, clientVars,
         vars, daemonVars
<1>2. ASSUME NEW t \in Tasks, Claim(t) PROVE ReconciledInv'
  <2>1. /\ \A u \in Inputs : Coherent(u) /\ Settled(u)
        /\ at = "idle" /\ at' = "claimed" /\ task' = t
        /\ state[t] = "queued" /\ state' = [state EXCEPT ![t] = "claimed"]
        /\ UNCHANGED <<dir, status, outcome>>
    BY <1>2, ReadyMeansSettled DEF Claim, ClaimTask, WriteState, Ready, Call, DBOnly, storageVars
  <2>2. ASSUME NEW u \in Inputs, u # t PROVE Coherent(u)' /\ Settled(u)'
    <3>1. state'[u] = state[u]
      BY <1>0, <2>1, <2>2 DEF DBTypeOK
    <3> QED
      BY <1>1, <2>1, <3>1, UntouchedInput
  <2>3. t \in Inputs => Coherent(t)' /\ Claimable(t) /\ Claimable(t)'
    <3>1. state'[t] = "claimed"
      BY <1>0, <2>1 DEF DBTypeOK
    <3> QED
      BY <2>1, <3>1 DEF Coherent, Settled, InFlight, Claimable
  <2>4. CarryInv'
    BY <2>1, <2>3 DEF CarryInv, Undoing, Suspending
  <2> QED
    BY <2>1, <2>2, <2>3, <2>4 DEF ReconciledInv, Pending
<1>3. ASSUME NEW t \in Tasks, Promote(t) PROVE ReconciledInv'
  <2>1. /\ \A u \in Inputs : Coherent(u) /\ Settled(u)
        /\ at = "idle" /\ at' = "idle"
        /\ state[t] = "retry_wait" /\ state' = [state EXCEPT ![t] = "queued"]
        /\ UNCHANGED <<dir, status, outcome>>
    BY <1>3, ReadyMeansSettled DEF Promote, WriteState, Ready, DBOnly, storageVars, daemonVars
  <2>2. ASSUME NEW u \in Inputs, u # t PROVE Coherent(u)' /\ Settled(u)'
    <3>1. state'[u] = state[u]
      BY <1>0, <2>1, <2>2 DEF DBTypeOK
    <3> QED
      BY <1>1, <2>1, <3>1, UntouchedInput
  <2>3. t \in Inputs => Coherent(t)' /\ Settled(t)'
    <3>1. state'[t] = "queued"
      BY <1>0, <2>1 DEF DBTypeOK
    <3> QED
      BY <2>1, <3>1 DEF Coherent, Settled, InFlight, Claimable, FinalStates
  <2> QED
    BY <2>1, <2>2, <2>3 DEF ReconciledInv, CarryInv
<1>4. CASE Sleep
  <2>1. \A u \in Inputs : Coherent(u) /\ Settled(u)
    BY <1>4, ReadyMeansSettled DEF Sleep
  <2>2. UNCHANGED <<state, dir, status, outcome, at, task>> /\ at = "idle"
    BY <1>4 DEF Sleep, Ready, vars, dbVars, storageVars, daemonVars
  <2> QED
    BY <1>1, <2>1, <2>2, UntouchedInput DEF ReconciledInv, CarryInv
<1>5. CASE Crash
  <2>1. UNCHANGED <<state, dir, status, outcome>> /\ at' = "down" /\ at # "claimWrite"
    BY <1>5 DEF Crash, Die, Tear, InputOnly, dbVars, storageVars, Undisturbed
  <2> QED
    BY <1>0, <1>1, <2>1, UntouchedInput DEF ReconciledInv, Pending, CarryInv
<1>6. ~CallFails
  BY DEF CallFails, Undisturbed
<1>7. ASSUME NEW t \in Inputs, Cleanup(t) PROVE ReconciledInv'
  <2>1. /\ \A u \in Inputs : Coherent(u) /\ Settled(u)
        /\ at = "idle" /\ at' = "idle"
        /\ dir' = [dir EXCEPT ![t] = "none"] /\ UNCHANGED <<state, status, outcome>>
        /\ status[t] \in {"processed", "rejected"}
    BY <1>7, ReadyMeansSettled DEF Cleanup, Expired, Move, Ready, dbVars, daemonVars
  <2>2. ASSUME NEW u \in Inputs, u # t PROVE Coherent(u)' /\ Settled(u)'
    <3>1. dir'[u] = dir[u]
      BY <1>0, <2>1, <2>2 DEF StorageTypeOK
    <3> QED
      BY <1>1, <2>1, <3>1, UntouchedInput
  <2>3. Coherent(t)' /\ Settled(t)'
    <3>1. dir'[t] = "none"
      BY <1>0, <2>1 DEF StorageTypeOK
    <3> QED
      BY <1>1, <2>1, <3>1 DEF Coherent, Settled, InFlight, Claimable
  <2> QED
    BY <2>1, <2>2, <2>3 DEF ReconciledInv, CarryInv
<1> QED
  BY <1>2, <1>3, <1>4, <1>5, <1>6, <1>7 DEF Poll

\* Staging and enqueueing make a task that can be claimed; a cancellation
\* leaves the input where it is.
LEMMA OperatorReconciles ==
  ASSUME Undisturbed, DaemonInv, ReconciledInv, NEW t \in Tasks,
         Stage(t) \/ Enqueue(t) \/ RejectImage(t) \/ MarkRead(t) \/ MarkWrite(t)
         \/ CancelRejected(t) \/ Cancel(t)
  PROVE  ReconciledInv'
<1> USE DaemonAssumption
<1>0. /\ StorageTypeOK /\ DBTypeOK /\ ingest \in [Tasks -> IngestSteps]
      /\ \A u \in Inputs : Coherent(u) /\ (Pending(u) \/ Settled(u)) /\ IngressOK(u)
      /\ CarryInv
  BY DEF DaemonInv, WellFormed, FilesTyped, ResultInv, InputOK, ReconciledInv
<1>1. Stage(t) \/ Enqueue(t) \/ Cancel(t)
  BY DEF RejectImage, MarkRead, MarkWrite, CancelRejected, Undisturbed, DaemonInv,
     WellFormed, FilesTyped, IngressOnly
<1>2. UNCHANGED daemonVars
  BY <1>1 DEF Stage, Enqueue, Cancel, IngestTo, reviewVars
<1>3. \A u \in Inputs : Pending(u) => Pending(u)'
  BY <1>2 DEF Pending, daemonVars
<1>4. ASSUME NEW u \in Inputs, u # t
      PROVE  /\ Coherent(u)' /\ (Settled(u) => Settled(u)')
             /\ dir'[u] = dir[u] /\ status'[u] = status[u] /\ outcome'[u] = outcome[u]
  <2>1. /\ state'[u] = state[u] /\ dir'[u] = dir[u] /\ status'[u] = status[u]
        /\ outcome'[u] = outcome[u] /\ ingest'[u] = ingest[u]
    BY <1>0, <1>1, <1>4 DEF Stage, StageInput, Enqueue, AddTask, Cancel, CancelTask, WriteState,
       IngestTo, reviewVars, InputOnly, DBOnly, dbVars, storageVars, clientVars, StorageTypeOK,
          DBTypeOK
  <2> QED
    BY <1>0, <1>2, <2>1, UntouchedInput DEF daemonVars
<1>5. ASSUME t \in Inputs, Stage(t) \/ Enqueue(t)
      PROVE  Coherent(t)' /\ Settled(t)' /\ state[t] = "absent"
  <2>1. CASE Stage(t)
    <3>1. /\ state[t] = "absent" /\ UNCHANGED state
          /\ dir'[t] = "incoming" /\ status'[t] = "accepted" /\ ingest'[t] = "staged"
      BY <1>0, <1>5, <2>1 DEF Stage, StageInput, IngestTo, reviewVars, InputOnly, dbVars, IngressOK,
         StorageTypeOK
    <3> QED
      BY <1>0, <1>5, <3>1 DEF Coherent, Settled, InFlight, Claimable, FinalStates
  <2>2. CASE Enqueue(t)
    <3>1. /\ state[t] = "absent" /\ state'[t] = "queued" /\ ingest[t] = "staged"
          /\ UNCHANGED <<dir, status, outcome>>
      BY <1>0, <1>5, <2>2 DEF Enqueue, AddTask, WriteState, DBOnly, storageVars, DBTypeOK
    <3>2. Claimable(t)
      BY <1>0, <1>5, <3>1 DEF Coherent
    <3> QED
      BY <1>0, <1>5, <3>1, <3>2 DEF Coherent, Settled, InFlight, Claimable, FinalStates
  <2> QED
    BY <1>5, <2>1, <2>2
<1>6. ASSUME t \in Inputs, Cancel(t)
      PROVE  /\ Coherent(t)' /\ (Settled(t) => Settled(t)')
             /\ UNCHANGED <<dir, status, outcome>>
  <2>1. /\ state'[t] = "cancelled" /\ UNCHANGED <<dir, status, outcome, ingest, at, task>>
        /\ ~Uncancelled
    BY <1>0, <1>6 DEF Cancel, CancelTask, WriteState, DBOnly, storageVars, clientVars, daemonVars,
       DBTypeOK, Uncancelled
  <2> QED
    BY <1>0, <1>6, <2>1 DEF Coherent, Settled, InFlight
<1>7. CarryInv'
  <2>1. CASE Cancel(t)
    <3>1. at \notin {"idle", "down"} /\ task \in Inputs =>
            dir'[task] = dir[task] /\ status'[task] = status[task] /\ outcome'[task] = outcome[task]
      BY <1>4, <1>6, <2>1
    <3> QED
      BY <1>0, <1>2, <3>1 DEF CarryInv, Claimable, daemonVars
  <2>2. CASE Stage(t) \/ Enqueue(t)
    <3>1. at \notin {"idle", "down"} /\ task \in Inputs => task # t
      BY <1>5, <2>2, HandExists
    <3> QED
      BY <1>0, <1>2, <1>4, <3>1 DEF CarryInv, Claimable, daemonVars
  <2> QED
    BY <1>1, <2>1, <2>2
<1>8. ASSUME NEW u \in Inputs PROVE Coherent(u)' /\ (Pending(u)' \/ Settled(u)')
  BY <1>0, <1>1, <1>3, <1>4, <1>5, <1>6
<1> QED
  BY <1>7, <1>8 DEF ReconciledInv

\* The status a review writes back was that of an input no ingress has marked.
NotesInv == \A t \in Inputs :
  review[t] = "read" => noted[t][2] \in {"accepted", "processing", "processed"}

\* A review leaves an input that it decides on settled.
LEMMA ReviewReconciles ==
  ASSUME DaemonInv, ReconciledInv, NotesInv, Review
  PROVE  ReconciledInv'
<1> USE DaemonAssumption
<1>0. /\ \A u \in Inputs : ReviewOK(u) /\ DurableOK(u) /\ Coherent(u) /\ (Pending(u) \/ Settled(u))
      /\ CarryInv /\ StateInv /\ MethodInv /\ StorageTypeOK /\ DBTypeOK
  BY DEF DaemonInv, WellFormed, FilesTyped, ReviewInv, ResultInv, InputOK, ReconciledInv
<1>1. UNCHANGED <<at, task, goal, then, todo, ingest, dir>>
  BY ReviewMoves DEF daemonVars
<1>2. PICK t \in Reviewed : \/ ReviewRead(t) \/ ReviewWrite(t) \/ ReviewGivesUp(t)
                           \/ \E decision \in {"approved", "rejected"} : Decide(t, decision)
  BY DEF Review
<1>3. /\ t \in Inputs /\ t \in Tasks
      /\ state[t] = "awaiting_review" /\ dir[t] \in {"processed", "none"}
      /\ outcome[t] = "awaiting_review"
  BY <1>0, <1>2 DEF ReviewRead, ReviewWrite, ReviewGivesUp, Decide, ReviewOK, DurableOK, OutcomeOf
<1>4. /\ \A u \in Inputs \ {t} : status'[u] = status[u]
      /\ \A u \in Tasks \ {t} : state'[u] = state[u]
      /\ status'[t] = status[t] \/ status'[t] \in {"accepted", "processing", "processed"}
      /\ state'[t] \in {"awaiting_review", "succeeded", "failed_terminal"}
      /\ UNCHANGED outcome
  <2>1. CASE ReviewRead(t) \/ ReviewGivesUp(t)
    BY <1>3, <2>1 DEF ReviewRead, ReviewGivesUp, dbVars, storageVars
  <2>2. CASE ReviewWrite(t)
    <3>1. noted[t][3] = outcome[t] /\ noted[t][2] \in {"accepted", "processing", "processed"}
      BY <1>0, <1>3, <2>2 DEF ReviewWrite, ReviewOK, NotesInv
    <3> QED
      BY <1>0, <1>3, <2>2, <3>1 DEF ReviewWrite, InputOnly, dbVars, StorageTypeOK
  <2>3. ASSUME NEW decision \in {"approved", "rejected"}, Decide(t, decision)
        PROVE  /\ UNCHANGED <<status, outcome>>
               /\ \/ state' = [state EXCEPT ![t] = "succeeded"]
                  \/ state' = [state EXCEPT ![t] = "failed_terminal"]
    BY <2>3 DEF Decide, ApproveAwaitingReview, WriteState, DBOnly, storageVars
  <2> QED
    BY <1>0, <1>2, <1>3, <2>1, <2>2, <2>3 DEF DBTypeOK
<1>5. ASSUME NEW u \in Inputs, u # t
      PROVE  Coherent(u)' /\ (Settled(u) => Settled(u)') /\ (Pending(u) => Pending(u)')
  BY <1>0, <1>1, <1>4, <1>5, UntouchedInput DEF Pending
<1>6. Coherent(t)' /\ Settled(t)'
  BY <1>0, <1>1, <1>3, <1>4 DEF Coherent, Settled, InFlight, Claimable
<1>7. CarryInv'
  <2>1. CASE task = t
    BY <1>0, <1>1, <1>3, <1>4, <2>1
    DEF CarryInv, StateInv, MethodInv, InputSteps, InputCalls, GivingBack, Undoing, Suspending
  <2>2. CASE task # t
    BY <1>0, <1>1, <1>4, <2>2 DEF CarryInv, Claimable
  <2> QED
    BY <2>1, <2>2
<1> QED
  BY <1>0, <1>5, <1>6, <1>7 DEF ReconciledInv

LEMMA StepKeepsNotes == ASSUME DaemonInv, ReconciledInv, NotesInv, [Next]_vars PROVE NotesInv'
<1> USE DEF NotesInv
<1>0. /\ review \in [Inputs -> ReviewSteps]
      /\ noted \in [Inputs -> Dirs \X Statuses \X Outcomes]
      /\ \A t \in Inputs : Coherent(t)
  BY DEF DaemonInv, WellFormed, FilesTyped, ReconciledInv
<1>1. CASE ~Review
  BY <1>1, OthersKeepReviewVars DEF reviewVars
<1>2. ASSUME NEW t \in Reviewed,
             \/ ReviewRead(t) \/ ReviewWrite(t) \/ ReviewGivesUp(t)
             \/ \E decision \in {"approved", "rejected"} : Decide(t, decision)
      PROVE  NotesInv'
  BY <1>0, <1>2, DaemonAssumption DEF ReviewRead, ReviewWrite, ReviewGivesUp, Decide, Coherent
<1> QED
  BY <1>1, <1>2 DEF Review

LEMMA StepReconciles ==
  ASSUME Undisturbed, DaemonInv, ReconciledInv, NotesInv, [Next]_vars
  PROVE  ReconciledInv' /\ NotesInv'
<1>0. NotesInv'
  BY StepKeepsNotes
<1>1. CASE UNCHANGED vars
  <2>1. UNCHANGED <<state, dir, status, outcome, ingest, at, task, goal, then, todo>>
    BY <1>1 DEF vars, dbVars, storageVars, daemonVars, clientVars
  <2>2. CarryInv'
    BY <2>1 DEF ReconciledInv, CarryInv, Claimable
  <2>3. \A t \in Inputs : Pending(t) => Pending(t)'
    BY <2>1 DEF Pending
  <2> QED
    BY <1>0, <2>1, <2>2, <2>3, UntouchedInput DEF ReconciledInv
<1> QED
  BY <1>0, <1>1, AdvanceReconciles, RecoverReconciles, LoopReconciles, OperatorReconciles,
     ReviewReconciles
  DEF Next, Ingress

\* The two stores agree whenever no recovery is under way.
LEMMA Reconciliation == ASSUME Undisturbed PROVE Spec => []ReconciledInv
<1>1. Init => ReconciledInv /\ NotesInv
  BY DaemonAssumption
  DEF Init, DBInit, StorageInit, ReconciledInv, Coherent, Pending, Settled, CarryInv, InFlight,
      Claimable, FinalStates, NotesInv
<1>2. DaemonInv /\ ReconciledInv /\ NotesInv /\ [Next]_vars => ReconciledInv' /\ NotesInv'
  BY StepReconciles
<1> QED
  BY <1>1, <1>2, DaemonInvariant, PTL DEF Spec

(***************************************************************************)
(* Whenever the daemon polls, also after kills at any other point, with    *)
(* torn files and with cancellations, a staged task that is queued or      *)
(* waits for a retry can be claimed: no kill loses it.                     *)
(***************************************************************************)
THEOREM WaitingTasksAreClaimable ==
  ASSUME Undisturbed PROVE Spec => []WaitingIsClaimable
<1>1. ReconciledInv => WaitingIsClaimable
  BY ReadyMeansSettled DEF WaitingIsClaimable, Settled
<1> QED
  BY <1>1, Reconciliation, PTL

(***************************************************************************)
(* Nor is any staged task claimed or running then, with nobody working on  *)
(* it.                                                                     *)
(***************************************************************************)
THEOREM NoTaskAbandoned ==
  ASSUME Undisturbed PROVE Spec => [](Ready => \A t \in Inputs : ~InFlight(t))
<1>1. ReconciledInv => (Ready => \A t \in Inputs : ~InFlight(t))
  BY ReadyMeansSettled DEF Settled
<1> QED
  BY <1>1, Reconciliation, PTL

(***************************************************************************)
(* Nor is the input of a settled one left where neither dispatch nor       *)
(* retention looks, if nobody cancels: the recovery gives up a claim that  *)
(* is cancelled under its hands, and leaves the input in processing.       *)
(***************************************************************************)
THEOREM NoTaskInLimbo ==
  ASSUME Undisturbed, Uncancelled PROVE Spec => []NothingInLimbo
<1>1. ReconciledInv => NothingInLimbo
  BY ReadyMeansSettled DEF NothingInLimbo, Settled, Coherent, FinalStates
<1> QED
  BY <1>1, Reconciliation, PTL
=============================================================================

-------------------------------- MODULE Daemon --------------------------------
(***************************************************************************)
(* gtx_broker/daemon.py with its two stores: the scheduler's database and  *)
(* the durable inputs.  One daemon dispatches tasks, is killed and         *)
(* restarts; _recover_interrupted_tasks then reconciles the two stores.    *)
(* The ingress stages inputs, operators cancel tasks, and reviewers decide *)
(* on the results that wait for them.                                      *)
(*                                                                         *)
(* at names the daemon's next call, then the call that follows once the    *)
(* current method has returned.  Every method of the two stores is a chain *)
(* of steps, and a kill may fall between any two of them.                  *)
(***************************************************************************)
EXTENDS Scheduler, Storage, Naturals

CONSTANTS
  NoTask,
  IngressTasks,   \* staged by TelegramImageIngress, which marks them queued
  Cancellable,    \* tasks an operator may ask the status API to cancel
  Reviewed,       \* inputs a reviewer may decide on
  Expiring,       \* inputs that may outlive the retention period
  CrashPoints,    \* where the daemon may be killed
  TearPoints,     \* where a kill may leave metadata.json torn
  FaultPoints,    \* calls that may fail and return
  MaxCrashes      \* bound on the number of kills

VARIABLES
  at, task, goal, then,
  todo,           \* inputs the restarted daemon has not reconciled yet
  crashes,        \* number of kills so far
  ingest,         \* where the ingress is with a task
  seen,           \* the directory and outcome it read before marking it
  review,         \* where the review of an input is
  noted           \* the directory, status and outcome the reviewer read

daemonVars == <<at, task, goal, then, todo, crashes>>
reviewVars == <<review, noted>>
clientVars == <<ingest, seen, review, noted>>
vars == <<dbVars, storageVars, daemonVars, clientVars>>

\* The entry points of the methods of the two stores.
DBCalls == {"requeue", "complete", "suspend"}
InputCalls == {"requeueInput", "completeInput"}

\* The writes that truncate metadata.json first.
InPlaceWrites == {"claimWrite", "completeInput", "markProcessed"}

PCs == {"idle", "down", "claimed", "claimWrite", "start", "running"}
       \cup DBCalls \cup InputCalls
       \cup {"requeueWrite", "recordReady", "completeWrite", "closeAll",
             "close", "suspendWrite", "toIncoming", "release",
             "toProcessed", "markProcessed"}

ASSUME DaemonAssumption ==
  /\ Inputs \subseteq Tasks
  /\ NoTask \notin Tasks
  /\ IngressTasks \subseteq Inputs
  /\ Cancellable \subseteq Tasks
  /\ Reviewed \subseteq Inputs
  /\ Expiring \subseteq Inputs
  /\ CrashPoints \subseteq PCs \ {"down"}
  /\ TearPoints \subseteq InPlaceWrites
  /\ FaultPoints \subseteq PCs \ {"idle", "down", "start", "running"}
  /\ MaxCrashes \in Nat

OutcomeOfState ==   \* mutant: the state's name is recorded, not the outcome's
  [s \in {"retry_wait", "succeeded", "failed_terminal", "awaiting_review"} |-> s]

\* The scheduler_outcome that announces a state.
OutcomeOf ==
  [ retry_wait      |-> "retry_wait",
    succeeded       |-> "succeeded",
    failed_terminal |-> "failed",
    awaiting_review |-> "awaiting_review" ]

-----------------------------------------------------------------------------
(* Moves of the daemon. *)

Goto(pc) == at' = pc /\ UNCHANGED <<task, goal, then, todo, crashes, clientVars>>

Return == IF at' = "idle" THEN todo' = todo \ {task} ELSE UNCHANGED todo

\* Start a method for task t that ends in state g, and one after it.
Call(t, g, first, second) ==
  /\ at' = first
  /\ task' = t
  /\ goal' = g
  /\ then' = second
  /\ UNCHANGED <<todo, crashes, clientVars>>

\* A method has succeeded: the next one, if any, follows.
Proceed ==
  /\ at' = then
  /\ then' = "idle"
  /\ Return
  /\ UNCHANGED <<task, goal, crashes, clientVars>>

\* A method has returned False: the daemon gives up on the task for now.
GiveUp ==
  /\ at' = "idle"
  /\ then' = "idle"
  /\ Return
  /\ UNCHANGED <<task, goal, crashes, clientVars>>

DBOnly == UNCHANGED storageVars
InputOnly == UNCHANGED dbVars

-----------------------------------------------------------------------------
(* Dispatch: run and _dispatch_task. *)

Ready == at = "idle" /\ todo = {}

Claim(t) ==
  /\ Ready
  /\ ClaimTask(t)
  /\ Call(t, "retry_wait", "claimed", "idle")
  /\ DBOnly

PromoteAny(t) ==   \* mutant: the state is not read first
  /\ Ready
  /\ WriteState(t, "queued")
  /\ UNCHANGED <<daemonVars, clientVars>>
  /\ DBOnly

\* requeue_retry_wait; the daemon is the only writer of a waiting task.
Promote(t) ==
  /\ Ready
  /\ state[t] = "retry_wait"
  /\ WriteState(t, "queued")
  /\ UNCHANGED <<daemonVars, clientVars>>
  /\ DBOnly

\* Nothing to claim: the loop sleeps for poll_interval.
Sleep == Ready /\ UNCHANGED vars

\* The manifest no longer validates.  The staged input stays where it is.
RejectManifest ==
  /\ at = "claimed"
  /\ task \in ManifestTasks
  /\ \/ FailClaimedTask(task)
     \/ state[task] # "claimed" /\ UNCHANGED dbVars
  /\ GiveUp
  /\ DBOnly

ClaimInputUnmoved ==   \* mutant: the input is left in incoming
  at = "claimed" /\ Goto("start") /\ UNCHANGED <<dbVars, storageVars>>

\* _claim_staged_input: claim_for_processing reads the metadata and moves.
ClaimInput ==
  /\ at = "claimed"
  /\ IF task \notin Inputs
       THEN Goto("start") /\ UNCHANGED storageVars
     ELSE IF Claimable(task)
       THEN Goto("claimWrite") /\ Move(task, "processing")
     ELSE Goto("requeue") /\ UNCHANGED storageVars
  /\ InputOnly

ClaimWrite ==
  /\ at = "claimWrite"
  /\ SetStatus(task, "processing")
  /\ Goto("start")
  /\ InputOnly

Start(w) ==
  /\ at = "start"
  /\ w \in WorkersFor[task]
  /\ StartTask(task, w)
  /\ Goto("running")
  /\ DBOnly

\* No worker, or start_task refuses: the input goes back, then the claim.
StartRefused ==
  /\ at = "start"
  /\ IF task \in Inputs THEN Call(task, "retry_wait", "requeueInput", "requeue")
                        ELSE Call(task, "retry_wait", "requeue", "idle")
  /\ UNCHANGED <<dbVars, storageVars>>

\* The method that moves the scheduler from running to s.
Finish(s) == IF s \in {"succeeded", "failed_terminal"} THEN "complete" ELSE "suspend"

HandlerReturnsSchedulerFirst(s) ==   \* mutant: the input is settled last
  /\ at = "running"
  /\ Call(task, s, Finish(s), IF task \in Inputs THEN "completeInput" ELSE "idle")
  /\ UNCHANGED <<dbVars, storageVars>>

HandlerReturnsRequeue(s) ==   \* mutant: the method for a claimed task is called
  /\ at = "running"
  /\ Call(task, s, "requeueInput", "requeue")
  /\ UNCHANGED <<dbVars, storageVars>>

\* The handler returned: the input is settled first, the scheduler second.
HandlerReturns(s) ==
  /\ at = "running"
  /\ IF task \notin Inputs
       THEN Call(task, s, Finish(s), "idle")
     ELSE IF s = "retry_wait"
       THEN Call(task, s, "requeueInput", "suspend")
     ELSE Call(task, s, "completeInput", Finish(s))
  /\ UNCHANGED <<dbVars, storageVars>>

-----------------------------------------------------------------------------
(* Methods of the scheduler. *)

\* requeue_claimed_to_retry_wait
Requeue ==
  /\ at = "requeue"
  /\ IF state[task] = "claimed" THEN Goto("requeueWrite") ELSE GiveUp
  /\ UNCHANGED <<dbVars, storageVars>>

RequeueWrite ==
  /\ at = "requeueWrite"
  /\ WriteState(task, "retry_wait")
  /\ Goto("recordReady")
  /\ DBOnly

RecordReady ==
  /\ at = "recordReady"
  /\ RecordP40ReadyIfNeeded
  /\ Proceed
  /\ DBOnly

\* complete_task
Complete ==
  /\ at = "complete"
  /\ IF state[task] = "running" THEN Goto("completeWrite") ELSE GiveUp
  /\ UNCHANGED <<dbVars, storageVars>>

CompleteWrite ==
  /\ at = "completeWrite"
  /\ WriteState(task, goal)
  /\ Goto("closeAll")
  /\ DBOnly

CloseAll ==
  /\ at = "closeAll"
  /\ CloseAttempt(task)
  /\ Goto("recordReady")
  /\ DBOnly

\* transition_running_to_retry_wait and transition_running_to_awaiting_review
Suspend ==
  /\ at = "suspend"
  /\ IF state[task] = "running" THEN Goto("close") ELSE GiveUp
  /\ UNCHANGED <<dbVars, storageVars>>

Close ==
  /\ at = "close"
  /\ CloseAttempt(task)
  /\ Goto("suspendWrite")
  /\ DBOnly

SuspendWrite ==
  /\ at = "suspendWrite"
  /\ WriteState(task, goal)
  /\ Proceed
  /\ DBOnly

-----------------------------------------------------------------------------
(* Methods of the durable inputs. *)

\* requeue_for_retry
RequeueInput ==
  /\ at = "requeueInput"
  /\ CASE dir[task] = "processing" -> SetOutcome(task, "retry_wait") /\ Goto("toIncoming")
       [] dir[task] = "incoming" -> Release(task) /\ Proceed
       [] OTHER -> UNCHANGED storageVars /\ GiveUp
  /\ InputOnly

ToIncoming ==
  /\ at = "toIncoming"
  /\ Move(task, "incoming")
  /\ Goto("release")
  /\ InputOnly

ReleaseInput ==
  /\ at = "release"
  /\ Release(task)
  /\ Proceed
  /\ InputOnly

\* complete_task of the storage: goal "none" when called without an outcome.
CompleteInput ==
  /\ at = "completeInput"
  /\ CASE dir[task] = "processing" ->
            /\ IF goal \in DOMAIN OutcomeOf THEN SetOutcome(task, OutcomeOf[goal])
                                            ELSE UNCHANGED storageVars
            /\ Goto("toProcessed")
       [] dir[task] = "processed" -> SetStatus(task, "processed") /\ Proceed
       [] OTHER -> UNCHANGED storageVars /\ GiveUp
  /\ InputOnly

ToProcessed ==
  /\ at = "toProcessed"
  /\ Move(task, "processed")
  /\ Goto("markProcessed")
  /\ InputOnly

\* The second write repeats the whole metadata read before the first.
MarkProcessed ==
  /\ at = "markProcessed"
  /\ status' = [status EXCEPT ![task] = "processed"]
  /\ IF goal \in DOMAIN OutcomeOf
       THEN outcome' = [outcome EXCEPT ![task] = OutcomeOf[goal]] ELSE UNCHANGED outcome
  /\ UNCHANGED <<dir, torn>>
  /\ Proceed
  /\ InputOnly

-----------------------------------------------------------------------------
(* Crash, restart and _recover_interrupted_tasks. *)

Die == at' = "down" /\ then' = "idle" /\ todo' = {}
        /\ UNCHANGED <<task, goal, clientVars>>

\* An input already marked processed is not written again.
WritesInPlace ==
  /\ at \in TearPoints
  /\ at = "completeInput" =>
       \/ dir[task] = "processing"
       \/ dir[task] = "processed" /\ status[task] # "processed"

Crash ==
  /\ at \in CrashPoints
  /\ crashes < MaxCrashes
  /\ crashes' = crashes + 1
  /\ Die
  /\ \/ UNCHANGED storageVars
     \/ WritesInPlace /\ Tear(task)
  /\ InputOnly

RestartProcessingOnly ==   \* mutant: only inputs in processing are visited
  /\ at = "down"
  /\ at' = "idle"
  /\ todo' = {t \in Inputs : dir[t] = "processing"}
  /\ UNCHANGED <<task, goal, then, crashes, clientVars, dbVars, storageVars>>

Restart ==
  /\ at = "down"
  /\ at' = "idle"
  /\ todo' = {t \in Inputs : dir[t] # "none"}
  /\ UNCHANGED <<task, goal, then, crashes, clientVars, dbVars, storageVars>>

Visit(t) == at = "idle" /\ t \in todo

InFlight(t) == state[t] \in {"claimed", "running"}

\* _transition_to_retry
ToRetry(t) == IF state[t] = "running" THEN "suspend" ELSE "requeue"

RecoverUntracked(t) ==   \* mutant: an input without a task stops the recovery
  /\ Visit(t)
  /\ torn[t] \/ state[t] = "absent"
  /\ Die
  /\ UNCHANGED <<crashes, dbVars, storageVars>>

\* get_task raises JSONDecodeError out of __init__; untracked inputs are not read.
RecoverTorn(t) ==
  /\ Visit(t)
  /\ torn[t]
  /\ state[t] # "absent"
  /\ Die
  /\ UNCHANGED <<crashes, dbVars, storageVars>>

\* The input was given back before the scheduler heard of it.
RecoverRetry(t) ==
  /\ Visit(t)
  /\ InFlight(t)
  /\ outcome[t] = "retry_wait"
  /\ ~torn[t]
  /\ IF status[t] = "accepted" THEN Call(t, "retry_wait", ToRetry(t), "idle")
                               ELSE Call(t, "retry_wait", "requeueInput", ToRetry(t))
  /\ UNCHANGED <<dbVars, storageVars>>

\* A result was recorded.  _finish_recovered_task accepts a running task only.
RecoverResult(t) ==
  /\ Visit(t)
  /\ InFlight(t)
  /\ ~torn[t]
  /\ \E s \in {"succeeded", "failed_terminal", "awaiting_review"} :
       /\ outcome[t] = OutcomeOf[s]
       /\ IF status[t] = "processed" THEN Call(t, s, Finish(s), "idle")
                                     ELSE Call(t, s, "completeInput", Finish(s))
  /\ UNCHANGED <<dbVars, storageVars>>

RecoverInFlightUnreleased(t) ==   \* mutant: the input is not given back
  /\ Visit(t) /\ InFlight(t) /\ outcome[t] = "none"
  /\ Call(t, "retry_wait", ToRetry(t), "idle")
  /\ UNCHANGED <<dbVars, storageVars>>

RecoverInFlightAny(t) ==   \* mutant: a recorded result is not looked at
  /\ Visit(t) /\ InFlight(t)
  /\ Call(t, "retry_wait", ToRetry(t), "requeueInput")
  /\ UNCHANGED <<dbVars, storageVars>>

\* No result: the scheduler is moved first, then the input is given back.
RecoverInFlight(t) ==
  /\ Visit(t)
  /\ InFlight(t)
  /\ outcome[t] = "none"
  /\ ~torn[t]
  /\ Call(t, "retry_wait", ToRetry(t),
          IF status[t] = "accepted" THEN "idle" ELSE "requeueInput")
  /\ UNCHANGED <<dbVars, storageVars>>

\* The scheduler is settled; only the input may be left in processing.
RecoverInput(t) ==
  /\ Visit(t)
  /\ ~InFlight(t)
  /\ ~torn[t] \/ state[t] = "absent"
  /\ CASE status[t] = "processing" /\ state[t] = "retry_wait" ->
            Call(t, "none", "requeueInput", "idle")
       [] status[t] = "processing" /\ state[t] \in FinalStates \cup {"awaiting_review"} ->
            Call(t, "none", "completeInput", "idle")
       [] OTHER -> todo' = todo \ {t} /\ UNCHANGED <<at, task, goal, then, crashes, clientVars>>
  /\ UNCHANGED <<dbVars, storageVars>>

\* Errors of the storage's complete_task, which recovery does not catch.
Raises == \/ at \in {"toProcessed", "markProcessed"}
          \/ at = "completeInput" /\ dir[task] = "processing"

\* A call on either store fails and the daemon leaves the task as it is.
CallFails ==
  /\ at \in FaultPoints
  /\ IF todo # {} /\ Raises THEN Die /\ UNCHANGED crashes ELSE GiveUp
  /\ UNCHANGED <<dbVars, storageVars>>

\* _run_retention_cleanup, on start and once a day.
Cleanup(t) ==
  /\ Ready
  /\ t \in Expiring
  /\ Expired(t)
  /\ Move(t, "none")
  /\ UNCHANGED <<daemonVars, clientVars, dbVars>>

-----------------------------------------------------------------------------
(* The ingress, one call per task, and the operator. *)

IngestTo(t, pc) ==
  /\ ingest' = [ingest EXCEPT ![t] = pc]
  /\ UNCHANGED <<seen, daemonVars, reviewVars>>

Stage(t) ==
  /\ ingest[t] = "new"
  /\ t \in Inputs
  /\ StageInput(t)
  /\ IngestTo(t, "staged")
  /\ InputOnly

Enqueue(t) ==
  /\ ingest[t] = IF t \in Inputs THEN "staged" ELSE "new"
  /\ AddTask(t)
  /\ IngestTo(t, IF t \in IngressTasks THEN "added" ELSE "done")
  /\ DBOnly

\* The quality gate rejects the image before it is enqueued.
RejectImage(t) ==
  /\ ingest[t] = "staged"
  /\ t \in IngressTasks
  /\ IngestTo(t, "reject")
  /\ UNCHANGED <<dbVars, storageVars>>

\* The update failed: the task is cancelled; a failed rejection is only logged.
Unmarked(t) == IF ingest[t] \in {"added", "marking"} THEN "cancel" ELSE "done"

\* update_metadata(status = queued) and reject_task read metadata.json where
\* they find it ...
MarkRead(t) ==
  /\ ingest[t] \in {"added", "reject"}
  /\ IF dir[t] = "none" \/ torn[t]
       THEN ingest' = [ingest EXCEPT ![t] = Unmarked(t)] /\ UNCHANGED seen
       ELSE /\ seen' = [seen EXCEPT ![t] = <<dir[t], outcome[t]>>]
            /\ ingest' = [ingest EXCEPT ![t] = IF @ = "added" THEN "marking" ELSE "rejecting"]
  /\ UNCHANGED <<daemonVars, reviewVars, dbVars, storageVars>>

\* ... and replace it there, unless the daemon has moved the directory.
MarkWrite(t) ==
  /\ ingest[t] \in {"marking", "rejecting"}
  /\ IF dir[t] = seen[t][1]
       THEN /\ status' = [status EXCEPT ![t] =
                           IF ingest[t] = "marking" THEN "queued" ELSE "rejected"]
            /\ outcome' = [outcome EXCEPT ![t] = seen[t][2]]
            /\ torn' = [torn EXCEPT ![t] = FALSE]
            /\ UNCHANGED dir
            /\ IngestTo(t, "done")
       ELSE UNCHANGED storageVars /\ IngestTo(t, Unmarked(t))
  /\ InputOnly

\* _reject_staged_task
CancelRejected(t) ==
  /\ ingest[t] = "cancel"
  /\ \/ state[t] \in {"queued", "claimed"} /\ CancelTask(t)
     \/ state[t] \notin {"queued", "claimed"} /\ UNCHANGED dbVars
  /\ IngestTo(t, "reject")
  /\ DBOnly

Cancel(t) ==
  /\ t \in Cancellable
  /\ CancelTask(t)
  /\ UNCHANGED <<storageVars, daemonVars, clientVars>>

-----------------------------------------------------------------------------
(* VisionReviewService, one review of an input at a time.  Only a review   *)
(* moves a task out of awaiting_review here, so a decision is one step.    *)

\* _decide reads the task, and update_metadata the file where it finds it ...
ReviewRead(t) ==
  /\ review[t] = "none"
  /\ state[t] = "awaiting_review"
  /\ dir[t] # "none"
  /\ ~torn[t]
  /\ review' = [review EXCEPT ![t] = "read"]
  /\ noted' = [noted EXCEPT ![t] = <<dir[t], status[t], outcome[t]>>]
  /\ UNCHANGED <<daemonVars, ingest, seen, dbVars, storageVars>>

\* ... and puts the file with the decision in it where it found the old one.
ReviewWrite(t) ==
  /\ review[t] = "read"
  /\ dir[t] = noted[t][1]
  /\ review' = [review EXCEPT ![t] = "noted"]
  /\ status' = [status EXCEPT ![t] = noted[t][2]]
  /\ outcome' = [outcome EXCEPT ![t] = noted[t][3]]
  /\ torn' = [torn EXCEPT ![t] = FALSE]
  /\ UNCHANGED <<dir, noted, daemonVars, ingest, seen>>
  /\ InputOnly

\* The input was moved, a call failed, or the reviewer's process died.
ReviewGivesUp(t) ==
  /\ review[t] \in {"read", "noted"}
  /\ review' = [review EXCEPT ![t] = "none"]
  /\ UNCHANGED <<noted, daemonVars, ingest, seen, dbVars, storageVars>>

\* approve_awaiting_review and transition_awaiting_review_to_failed.
Decide(t, decision) ==
  /\ review[t] = "noted"
  /\ CASE decision = "approved" -> t \notin ManifestTasks /\ ApproveAwaitingReview(t)
       [] decision = "rejected" ->
            state[t] = "awaiting_review" /\ WriteState(t, "failed_terminal")
  /\ review' = [review EXCEPT ![t] = decision]
  /\ UNCHANGED <<noted, daemonVars, ingest, seen>>
  /\ DBOnly

-----------------------------------------------------------------------------
Init ==
  /\ DBInit
  /\ StorageInit
  /\ at = "idle"
  /\ task = NoTask
  /\ goal = "none"
  /\ then = "idle"
  /\ todo = {}
  /\ crashes = 0
  /\ ingest = [t \in Tasks |-> "new"]
  /\ seen = [t \in Inputs |-> <<"none", "none">>]
  /\ review = [t \in Inputs |-> "none"]
  /\ noted = [t \in Inputs |-> <<"none", "accepted", "none">>]

Advance ==
  \/ RejectManifest \/ ClaimInput \/ ClaimWrite
  \/ \E w \in Workers : Start(w)
  \/ StartRefused
  \/ \E s \in DOMAIN OutcomeOf : HandlerReturns(s)
  \/ Requeue \/ RequeueWrite \/ RecordReady
  \/ Complete \/ CompleteWrite \/ CloseAll
  \/ Suspend \/ Close \/ SuspendWrite
  \/ RequeueInput \/ ToIncoming \/ ReleaseInput
  \/ CompleteInput \/ ToProcessed \/ MarkProcessed

Recover ==
  \/ Restart
  \/ \E t \in Inputs :
       \/ RecoverTorn(t) \/ RecoverRetry(t) \/ RecoverResult(t)
       \/ RecoverInFlight(t) \/ RecoverInput(t)

Poll == Sleep \/ \E t \in Tasks : Claim(t) \/ Promote(t)

Ingress == \E t \in Tasks :
  \/ Stage(t) \/ Enqueue(t) \/ RejectImage(t)
  \/ MarkRead(t) \/ MarkWrite(t) \/ CancelRejected(t)

Review == \E t \in Reviewed :
  \/ ReviewRead(t) \/ ReviewWrite(t) \/ ReviewGivesUp(t)
  \/ \E decision \in {"approved", "rejected"} : Decide(t, decision)

Next ==
  \/ Poll \/ Advance \/ Recover
  \/ Crash \/ CallFails
  \/ \E t \in Inputs : Cleanup(t)
  \/ \E t \in Tasks : Cancel(t)
  \/ Ingress \/ Review

Spec == Init /\ [][Next]_vars

(***************************************************************************)
(* The service manager restarts a dead daemon, __init__ recovers before    *)
(* run polls, and every call the daemon makes returns.  Nothing is assumed *)
(* of the ingress, of operators and reviewers, or of the loop finding a    *)
(* task to claim.                                                          *)
(***************************************************************************)
FairSpec == Spec /\ WF_vars(Advance) /\ WF_vars(Recover)

-----------------------------------------------------------------------------
(* Properties. *)

DaemonTypeOK ==
  /\ DBTypeOK
  /\ StorageTypeOK
  /\ at \in PCs
  /\ then \in DBCalls \cup InputCalls \cup {"idle"}
  /\ task \in Tasks \cup {NoTask}
  /\ goal \in DOMAIN OutcomeOf \cup {"none"}
  /\ todo \subseteq Inputs
  /\ crashes \in 0..MaxCrashes
  /\ ingest \in [Tasks -> {"new", "staged", "added", "marking", "cancel", "reject", "rejecting", "done"}]
  /\ seen \in [Inputs -> Dirs \X Outcomes]
  /\ review \in [Inputs -> {"none", "read", "noted", "approved", "rejected"}]
  /\ noted \in [Inputs -> Dirs \X Statuses \X Outcomes]

(***************************************************************************)
(* A result is durable before the scheduler reports it: whatever crashed   *)
(* or failed, a succeeded or awaiting_review task has its input in         *)
(* processed (or removed after the retention period), with that outcome    *)
(* recorded.  An approved one keeps the outcome the reviewer was asked     *)
(* about: the decision is noted beside it and does not replace it.         *)
(***************************************************************************)
ResultIsDurable ==
  \A t \in Inputs :
    state[t] \in {"succeeded", "awaiting_review"} =>
      /\ dir[t] \in {"processed", "none"}
      /\ \/ outcome[t] = OutcomeOf[state[t]]
         \/ review[t] = "approved" /\ outcome[t] = "awaiting_review"

(***************************************************************************)
(* A handler only ever reads an input the daemon has claimed, and never    *)
(* one whose result is already recorded.                                   *)
(***************************************************************************)
HandlerOwnsInput ==
  at = "running" /\ task \in Inputs =>
    /\ dir[task] = "processing"
    /\ outcome[task] \in {"none", "retry_wait"}

(***************************************************************************)
(* A recorded result is never taken back: with HandlerOwnsInput, a crash   *)
(* after the result was recorded does not execute the task a second time.  *)
(***************************************************************************)
ResultIsFinal ==
  [][\A t \in Inputs : outcome[t] \in {"succeeded", "failed", "awaiting_review"}
                          => outcome'[t] = outcome[t]]_vars

(***************************************************************************)
(* When the daemon has reconciled the stores and polls for work, a staged  *)
(* task that is queued or waits for a retry has an input it can claim.     *)
(***************************************************************************)
WaitingIsClaimable ==
  Ready => \A t \in Inputs :
    state[t] \in {"queued", "retry_wait"} => Claimable(t)

(***************************************************************************)
(* And no staged task is left in flight, nor the input of a settled one in *)
(* processing, where neither dispatch nor retention would find it.         *)
(***************************************************************************)
NothingInLimbo ==
  Ready => \A t \in Inputs :
    /\ ~InFlight(t)
    /\ state[t] \in FinalStates \cup {"awaiting_review"} => dir[t] # "processing"

Lifecycle == INSTANCE TaskLifecycle WITH Transitions <- STATE_TRANSITIONS

(***************************************************************************)
(* Crashes, restarts and failed calls included, a task's state changes     *)
(* only along STATE_TRANSITIONS.                                           *)
(***************************************************************************)
FollowsLifecycle == Lifecycle!Spec

\* A kill has torn metadata that recovery reads; every restart then fails.
Unreadable == \E t \in Inputs : torn[t] /\ state[t] # "absent"

(***************************************************************************)
(* A daemon that was killed comes back and polls for work again, unless a  *)
(* kill has torn the metadata.json of a task: nothing else, no state the   *)
(* stores are left in and no second kill, stops _recover_interrupted_tasks *)
(* for good.                                                               *)
(***************************************************************************)
RecoveryCompletes == at = "down" ~> (Ready \/ Unreadable)

(***************************************************************************)
(* A staged task in flight always leaves that state, even if the daemon is *)
(* killed meanwhile: recovery sees every task that has a staged input.     *)
(* Only a torn metadata.json, of whichever task, leaves it there.          *)
(***************************************************************************)
StagedWorkResolves == \A t \in Inputs : InFlight(t) ~> (~InFlight(t) \/ Unreadable)
=============================================================================

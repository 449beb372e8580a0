--------------------------- MODULE Dispatch_proofs ---------------------------
(***************************************************************************)
(* Proofs about the processes around the scheduler's store, for every set  *)
(* of tasks, workers and processes.  The first part shows that every step  *)
(* is a transaction of the store, so that what is proved of the store      *)
(* holds here too.  The second part is about the daemon when nobody else   *)
(* touches the tasks it has claimed.                                       *)
(***************************************************************************)
EXTENDS Dispatch, Scheduler_proofs

\* A dispatcher's step keeps the variables of the processes well typed.
LEMMA DispatcherTyped ==
  ASSUME DispatchTypeOK, NEW d \in Dispatchers, DispatcherStep(d)
  PROVE  ProcTypeOK'
<1> USE DispatchAssumption, SchedulerAssumption DEF DispatchTypeOK, ProcTypeOK, PCs, WrittenStates, Procs
<1>1. ASSUME NEW t \in Tasks, Claim(d, t) \/ PromoteSelect(d, t)
      PROVE  ProcTypeOK'
  BY <1>1 DEF Claim, PromoteSelect, Begin
<1>2. CASE RejectManifest(d) \/ RecordReady(d) \/ Kill(d)
  BY <1>2 DEF RejectManifest, RecordReady, Kill, Return
<1>3. ASSUME NEW w \in Workers, Start(d, w)
      PROVE  ProcTypeOK'
  BY <1>3 DEF Start
<1>4. CASE StartRefused(d) \/ CompleteWrite(d) \/ CloseAll(d) \/ CloseCurrent(d)
  BY <1>4 DEF StartRefused, CompleteWrite, CloseAll, CloseCurrent, Goto
<1>5. CASE RequeueSelect(d)
  BY <1>5 DEF RequeueSelect, GotoWrite, Return
<1>6. ASSUME NEW s \in {"succeeded", "failed_terminal"}, HandlerDone(d, s)
      PROVE  ProcTypeOK'
  BY <1>6 DEF HandlerDone, GotoWrite, Return
<1>7. ASSUME NEW s \in {"retry_wait", "awaiting_review"}, HandlerSuspends(d, s)
      PROVE  ProcTypeOK'
  BY <1>7 DEF HandlerSuspends, GotoWrite, Return
<1>8. CASE Write(d)
  BY <1>8 DEF Write, Goto, Return
<1> QED
  BY <1>1, <1>2, <1>3, <1>4, <1>5, <1>6, <1>7, <1>8 DEF DispatcherStep, Advance

\* So do the steps of reviewers and maintainers.
LEMMA CallerTyped ==
  ASSUME DispatchTypeOK, NEW p \in Reviewers \cup Maintainers,
         ReviewerStep(p) \/ MaintainerStep(p)
  PROVE  ProcTypeOK'
<1> USE DispatchAssumption, SchedulerAssumption
    DEF DispatchTypeOK, ProcTypeOK, PCs, WrittenStates, Procs
<1>1. ASSUME NEW t \in Tasks, ApproveSelect(p, t)
      PROVE  ProcTypeOK'
  BY <1>1 DEF ApproveSelect, Begin
<1>2. ASSUME NEW t \in Tasks, NEW s \in {"failed_terminal", "queued"},
             ReviewSelect(p, t, s)
      PROVE  ProcTypeOK'
  BY <1>2 DEF ReviewSelect
<1>3. ASSUME NEW t \in Tasks, RetrySelect(p, t)
      PROVE  ProcTypeOK'
  BY <1>3 DEF RetrySelect
<1>4. CASE ApproveWrite(p) \/ RecordReady(p)
  BY <1>4 DEF ApproveWrite, RecordReady, Return
<1>5. CASE CloseCurrent(p)
  BY <1>5 DEF CloseCurrent, Goto
<1>6. CASE Write(p)
  BY <1>6 DEF Write, Goto, Return
<1> QED
  BY <1>1, <1>2, <1>3, <1>4, <1>5, <1>6 DEF ReviewerStep, MaintainerStep

-----------------------------------------------------------------------------
\* What each statement does to the store, whatever it does to its caller.
LEMMA DispatcherStoreStep ==
  ASSUME DispatchTypeOK, NEW d \in Dispatchers, DispatcherStep(d)
  PROVE  [StoreNext]_dbVars
<1> USE DEF Procs
<1>0. task[d] \in Tasks \/ at[d] = "idle"
  BY DEF DispatchTypeOK, ProcTypeOK
<1>1. ASSUME NEW t \in Tasks, Claim(d, t) \/ PromoteSelect(d, t)
      PROVE  [StoreNext]_dbVars
  BY <1>1 DEF Claim, PromoteSelect, StoreNext
<1>2. CASE RejectManifest(d)
  <2>1. "failed_terminal" \in WrittenStates
    BY DEF WrittenStates
  <2> QED
    BY <1>0, <1>2, <2>1 DEF RejectManifest, FailClaimedTask, StoreNext
<1>3. ASSUME NEW w \in Workers, Start(d, w)
      PROVE  [StoreNext]_dbVars
  BY <1>0, <1>3 DEF Start, StoreNext
<1>4. CASE StartRefused(d) \/ RequeueSelect(d) \/ Kill(d)
  BY <1>4 DEF StartRefused, RequeueSelect, Kill
<1>5. ASSUME NEW s, HandlerDone(d, s) \/ HandlerSuspends(d, s)
      PROVE  [StoreNext]_dbVars
  BY <1>5 DEF HandlerDone, HandlerSuspends
<1>6. CASE CompleteWrite(d) \/ Write(d)
  <2>1. goal[d] \in WrittenStates
    BY DEF DispatchTypeOK, ProcTypeOK
  <2> QED
    BY <1>0, <1>6, <2>1 DEF CompleteWrite, Write, StoreNext
<1>7. CASE CloseAll(d) \/ CloseCurrent(d)
  BY <1>0, <1>7 DEF CloseAll, CloseCurrent, StoreNext
<1>8. CASE RecordReady(d)
  BY <1>8 DEF RecordReady, StoreNext
<1> QED
  BY <1>1, <1>2, <1>3, <1>4, <1>5, <1>6, <1>7, <1>8 DEF DispatcherStep, Advance

\* Reviewers and maintainers, likewise.
LEMMA CallerStoreStep ==
  ASSUME DispatchTypeOK, NEW p \in Reviewers \cup Maintainers,
         ReviewerStep(p) \/ MaintainerStep(p)
  PROVE  [StoreNext]_dbVars
<1> USE DEF Procs
<1>0. task[p] \in Tasks \/ at[p] = "idle"
  BY DEF DispatchTypeOK, ProcTypeOK
<1>1. ASSUME NEW t, NEW s,
             ApproveSelect(p, t) \/ ReviewSelect(p, t, s) \/ RetrySelect(p, t)
      PROVE  [StoreNext]_dbVars
  BY <1>1 DEF ApproveSelect, ReviewSelect, RetrySelect
<1>2. CASE ApproveWrite(p)
  <2>1. "succeeded" \in WrittenStates
    BY DEF WrittenStates
  <2> QED
    BY <1>0, <1>2, <2>1 DEF ApproveWrite, ApproveAwaitingReview, StoreNext
<1>3. CASE Write(p)
  <2>1. goal[p] \in WrittenStates
    BY DEF DispatchTypeOK, ProcTypeOK
  <2> QED
    BY <1>0, <1>3, <2>1 DEF Write, StoreNext
<1>4. CASE CloseCurrent(p)
  BY <1>0, <1>4 DEF CloseCurrent, StoreNext
<1>5. CASE RecordReady(p)
  BY <1>5 DEF RecordReady, StoreNext
<1> QED
  BY <1>1, <1>2, <1>3, <1>4, <1>5 DEF ReviewerStep, MaintainerStep

\* Clients run whole transactions.
LEMMA ClientStoreStep == ASSUME ClientStep PROVE StoreNext
<1>1. "queued" \in WrittenStates
  BY DEF WrittenStates
<1> QED
  BY <1>1, DispatchAssumption DEF ClientStep, AddTask, StoreNext

\* Every step of the processes is a transaction of the store or none at all.
LEMMA StepIsStoreStep == DispatchTypeOK /\ [Next]_vars => [StoreNext]_dbVars
  BY DispatcherStoreStep, CallerStoreStep, ClientStoreStep DEF Next, vars

\* The initial state is well typed.
LEMMA InitTyped == Init => DispatchTypeOK
<1>1. Init => DBTypeOK
  BY DBInitTyped DEF Init
<1>2. Init => ProcTypeOK
  BY DEF Init, ProcTypeOK, PCs, WrittenStates
<1> QED
  BY <1>1, <1>2 DEF DispatchTypeOK

(***************************************************************************)
(* Every variable keeps its type, and a process that is in a method works  *)
(* on a task.                                                              *)
(***************************************************************************)
THEOREM DispatchTypeCorrect == Spec => []DispatchTypeOK
<1>1. Init => DispatchTypeOK
  BY InitTyped
<1>2. DispatchTypeOK /\ [Next]_vars => DispatchTypeOK'
  <2> SUFFICES ASSUME DispatchTypeOK, [Next]_vars
               PROVE  DispatchTypeOK'
    OBVIOUS
  <2>1. DBTypeOK'
    BY StepIsStoreStep, StoreStepTyped DEF DispatchTypeOK
  <2>2. ASSUME UNCHANGED procVars
        PROVE  ProcTypeOK'
    BY <2>2 DEF procVars, DispatchTypeOK, ProcTypeOK
  <2>3. ProcTypeOK'
    BY <2>2, DispatcherTyped, CallerTyped DEF Next, ClientStep, vars
  <2> QED
    BY <2>1, <2>3 DEF DispatchTypeOK
<1> QED
  BY <1>1, <1>2, PTL DEF Spec

(***************************************************************************)
(* The processes implement the store: a reader may forget them and reason  *)
(* about transactions alone.                                               *)
(***************************************************************************)
THEOREM DispatchImplementsStore == Spec => StoreSpec
<1>1. Init => DBInit
  BY DEF Init
<1> QED
  BY <1>1, StepIsStoreStep, DispatchTypeCorrect, PTL DEF Spec, StoreSpec

\* At most one running task holds the P40 (start_task's conflict count).
THEOREM DispatchExclusion == Spec => []ResourceExclusion
  BY DispatchImplementsStore, StoreExclusion, PTL

\* A P40 announced as ready stays free until planning mode ends.
THEOREM DispatchReadiness == Spec => []ReadyMeansFree
  BY DispatchImplementsStore, StoreReadiness, PTL

-----------------------------------------------------------------------------
(***************************************************************************)
(* The inductive invariant of an uncontended daemon: what each pending     *)
(* statement of the dispatcher and of the reviewer will find.  It says of  *)
(* a pending UPDATE which state it replaces, which NoStaleDecision only    *)
(* bounds by the transition table.                                         *)
(***************************************************************************)
PendingUpdates ==
  {<<"claimed", "retry_wait">>, <<"running", "retry_wait">>,
   <<"running", "awaiting_review">>, <<"retry_wait", "queued">>}

DispatcherCurrent(d) ==
  /\ at[d] # "approve"
  /\ at[d] \in {"claimed", "requeue"} => state[task[d]] = "claimed"
  /\ at[d] \in {"running", "complete", "close"} => state[task[d]] = "running"
  /\ at[d] = "running" => openOn[task[d]] = worker[d]
  /\ at[d] = "complete" => goal[d] \in {"succeeded", "failed_terminal"}
  /\ at[d] = "close" => goal[d] \in {"retry_wait", "awaiting_review"}
  /\ at[d] = "write" => <<state[task[d]], goal[d]>> \in PendingUpdates

ReviewerCurrent(r) ==
  /\ at[r] \in {"idle", "approve", "write"}
  /\ at[r] # "idle" => state[task[r]] = "awaiting_review"
  /\ at[r] = "write" => goal[r] = "failed_terminal"

SoloInv ==
  /\ DispatchTypeOK
  /\ \A d \in Dispatchers : DispatcherCurrent(d)
  /\ \A r \in Reviewers : ReviewerCurrent(r)

\* The rows of the transition table a dispatcher and a reviewer use.
Legal(from, to) ==
  from \in DOMAIN STATE_TRANSITIONS /\ to \in STATE_TRANSITIONS[from]

\* The pending UPDATEs and the single transactions are legal moves.
LEMMA LegalMoves ==
  /\ Legal("queued", "claimed")
  /\ Legal("claimed", "running")
  /\ Legal("claimed", "failed_terminal")
  /\ Legal("running", "succeeded")
  /\ Legal("running", "failed_terminal")
  /\ \A u \in PendingUpdates : Legal(u[1], u[2])
  /\ Legal("awaiting_review", "succeeded")
  /\ Legal("awaiting_review", "failed_terminal")
  BY DEF Legal, STATE_TRANSITIONS, PendingUpdates

\* One step of the only dispatcher: its reading is still current afterwards,
\* the reviewer's too, and the state moves as the table says.
LEMMA DispatcherSolo ==
  ASSUME Uncontended, SoloInv, NEW d \in Dispatchers, DispatcherStep(d)
  PROVE  /\ DispatcherCurrent(d)'
         /\ \A r \in Reviewers : ReviewerCurrent(r)'
         /\ [Lifecycle!Next]_state
<1> DEFINE Goal == /\ DispatcherCurrent(d)'
                   /\ \A r \in Reviewers : ReviewerCurrent(r)'
                   /\ [Lifecycle!Next]_state
<1> USE DispatchAssumption, SchedulerAssumption
<1>0. /\ state \in [Tasks -> TaskStates \cup {"absent"}]
      /\ openOn \in [Tasks -> Workers \cup {NoWorker}]
      /\ at \in [Procs -> PCs] /\ task \in [Procs -> Tasks \cup {NoTask}]
      /\ goal \in [Procs -> WrittenStates]
      /\ worker \in [Procs -> Workers \cup {NoWorker}]
      /\ at[d] # "idle" => task[d] \in Tasks
      /\ d \in Procs /\ d \notin Reviewers
      /\ DispatcherCurrent(d)
      /\ \A r \in Reviewers : r \in Procs /\ ReviewerCurrent(r)
  BY DEF SoloInv, DispatchTypeOK, DBTypeOK, ProcTypeOK, Procs
<1>1. ASSUME NEW t \in Tasks, NEW s \in WrittenStates \cup {"claimed", "running"},
             state' = [state EXCEPT ![t] = s],
             state[t] # "awaiting_review",
             \A r \in Reviewers : at'[r] = at[r] /\ task'[r] = task[r] /\ goal'[r] = goal[r],
             Legal(state[t], s)
      PROVE  /\ \A r \in Reviewers : ReviewerCurrent(r)'
             /\ [Lifecycle!Next]_state
  <2>1. \A r \in Reviewers : ReviewerCurrent(r)'
    BY <1>0, <1>1 DEF ReviewerCurrent
  <2>2. Lifecycle!Next
    BY <1>1 DEF Legal, Lifecycle!Next, Lifecycle!Move, Lifecycle!Successors
  <2> QED
    BY <2>1, <2>2
<1>2. ASSUME state' = state,
             \A r \in Reviewers : at'[r] = at[r] /\ task'[r] = task[r] /\ goal'[r] = goal[r]
      PROVE  /\ \A r \in Reviewers : ReviewerCurrent(r)'
             /\ [Lifecycle!Next]_state
  BY <1>0, <1>2 DEF ReviewerCurrent
<1>3. ASSUME NEW t \in Tasks, Claim(d, t)
      PROVE  Goal
  <2>1. DispatcherCurrent(d)'
    BY <1>0, <1>3 DEF Claim, ClaimTask, WriteState, Begin, DispatcherCurrent
  <2>2. \A r \in Reviewers : at'[r] = at[r] /\ task'[r] = task[r] /\ goal'[r] = goal[r]
    BY <1>0, <1>3 DEF Claim, Begin
  <2>3. /\ state[t] = "queued"
        /\ state' = [state EXCEPT ![t] = "claimed"]
    BY <1>3 DEF Claim, ClaimTask, WriteState
  <2>4. Legal(state[t], "claimed")
    BY <2>3, LegalMoves
  <2> QED
    BY <1>1, <2>1, <2>2, <2>3, <2>4
<1>4. ASSUME NEW t \in Tasks, PromoteSelect(d, t)
      PROVE  Goal
  BY <1>0, <1>2, <1>4 DEF PromoteSelect, DispatcherCurrent, dbVars, PendingUpdates
<1>5. CASE RejectManifest(d)
  <2>1. DispatcherCurrent(d)'
    BY <1>0, <1>5 DEF RejectManifest, Return, DispatcherCurrent
  <2>2. \A r \in Reviewers : at'[r] = at[r] /\ task'[r] = task[r] /\ goal'[r] = goal[r]
    BY <1>0, <1>5 DEF RejectManifest, Return
  <2>3. CASE UNCHANGED dbVars
    BY <1>2, <2>1, <2>2, <2>3 DEF dbVars
  <2>4. CASE FailClaimedTask(task[d])
    <3>1. /\ task[d] \in Tasks
          /\ state[task[d]] = "claimed"
          /\ state' = [state EXCEPT ![task[d]] = "failed_terminal"]
      BY <1>0, <1>5, <2>4 DEF RejectManifest, FailClaimedTask, WriteState
    <3>2. "failed_terminal" \in WrittenStates /\ Legal(state[task[d]], "failed_terminal")
      BY <3>1, LegalMoves DEF WrittenStates
    <3> QED
      BY <1>1, <2>1, <2>2, <3>1, <3>2
  <2> QED
    BY <1>5, <2>3, <2>4 DEF RejectManifest
<1>6. ASSUME NEW w \in Workers, Start(d, w)
      PROVE  Goal
  <2>1. task[d] \in Tasks
    BY <1>0, <1>6 DEF Start
  <2>2. DispatcherCurrent(d)'
    BY <1>0, <1>6, <2>1 DEF Start, StartTask, DispatcherCurrent
  <2>3. \A r \in Reviewers : at'[r] = at[r] /\ task'[r] = task[r] /\ goal'[r] = goal[r]
    BY <1>0, <1>6 DEF Start
  <2>4. /\ state[task[d]] = "claimed"
        /\ state' = [state EXCEPT ![task[d]] = "running"]
    BY <1>6 DEF Start, StartTask, StartAllowed
  <2>5. Legal(state[task[d]], "running")
    BY <2>4, LegalMoves
  <2> QED
    BY <1>1, <2>1, <2>2, <2>3, <2>4, <2>5
<1>7. CASE StartRefused(d) \/ RequeueSelect(d) \/ Kill(d)
  BY <1>0, <1>2, <1>7
  DEF StartRefused, RequeueSelect, Kill, Goto, GotoWrite, Return, DispatcherCurrent,
      dbVars, PendingUpdates
<1>8. ASSUME NEW s \in {"succeeded", "failed_terminal"}, HandlerDone(d, s)
      PROVE  Goal
  BY <1>0, <1>2, <1>8 DEF HandlerDone, GotoWrite, Return, DispatcherCurrent, dbVars
<1>9. ASSUME NEW s \in {"retry_wait", "awaiting_review"}, HandlerSuspends(d, s)
      PROVE  Goal
  BY <1>0, <1>2, <1>9 DEF HandlerSuspends, GotoWrite, Return, DispatcherCurrent, dbVars
<1>10. CASE CompleteWrite(d)
  <2>1. /\ task[d] \in Tasks
        /\ state[task[d]] = "running"
        /\ goal[d] \in {"succeeded", "failed_terminal"}
    BY <1>0, <1>10 DEF CompleteWrite, DispatcherCurrent
  <2>2. DispatcherCurrent(d)'
    BY <1>0, <1>10, <2>1 DEF CompleteWrite, WriteState, Goto, DispatcherCurrent
  <2>3. Legal(state[task[d]], goal[d])
    BY <2>1, LegalMoves
  <2> QED
    BY <1>0, <1>1, <1>10, <2>1, <2>2, <2>3 DEF CompleteWrite, WriteState, Goto
<1>11. CASE CloseAll(d) \/ CloseCurrent(d) \/ RecordReady(d)
  BY <1>0, <1>2, <1>11
  DEF CloseAll, CloseCurrent, RecordReady, CloseAttempt, RecordP40ReadyIfNeeded, Goto,
      Return, DispatcherCurrent, PendingUpdates
<1>12. CASE Write(d)
  <2>1. /\ task[d] \in Tasks
        /\ <<state[task[d]], goal[d]>> \in PendingUpdates
    BY <1>0, <1>12 DEF Write, DispatcherCurrent
  <2>2. DispatcherCurrent(d)'
    BY <1>0, <1>12 DEF Write, Goto, Return, DispatcherCurrent
  <2>3. Legal(state[task[d]], goal[d])
    BY <2>1, LegalMoves
  <2>4. state[task[d]] # "awaiting_review"
    BY <2>1 DEF PendingUpdates
  <2>5. \A r \in Reviewers : at'[r] = at[r] /\ task'[r] = task[r] /\ goal'[r] = goal[r]
    BY <1>0, <1>12 DEF Write, Goto, Return
  <2> QED
    BY <1>0, <1>1, <1>12, <2>1, <2>2, <2>3, <2>4, <2>5 DEF Write, WriteState
<1> QED
  BY <1>3, <1>4, <1>5, <1>6, <1>7, <1>8, <1>9, <1>10, <1>11, <1>12
  DEF DispatcherStep, Advance

\* One step of the only reviewer, likewise.
LEMMA ReviewerSolo ==
  ASSUME Uncontended, SoloInv, NEW r \in Reviewers, ReviewerStep(r)
  PROVE  /\ ReviewerCurrent(r)'
         /\ \A d \in Dispatchers : DispatcherCurrent(d)'
         /\ [Lifecycle!Next]_state
<1> DEFINE Goal == /\ ReviewerCurrent(r)'
                   /\ \A d \in Dispatchers : DispatcherCurrent(d)'
                   /\ [Lifecycle!Next]_state
<1> USE DispatchAssumption, SchedulerAssumption
<1>0. /\ state \in [Tasks -> TaskStates \cup {"absent"}]
      /\ at \in [Procs -> PCs] /\ task \in [Procs -> Tasks \cup {NoTask}]
      /\ goal \in [Procs -> WrittenStates]
      /\ worker \in [Procs -> Workers \cup {NoWorker}]
      /\ at[r] # "idle" => task[r] \in Tasks
      /\ r \in Procs
      /\ ReviewerCurrent(r)
      /\ \A d \in Dispatchers : d \in Procs /\ d # r /\ DispatcherCurrent(d)
  BY DEF SoloInv, DispatchTypeOK, DBTypeOK, ProcTypeOK, Procs
<1>1. ASSUME NEW t \in Tasks, NEW s \in {"succeeded", "failed_terminal"},
             state[t] = "awaiting_review",
             state' = [state EXCEPT ![t] = s], openOn' = openOn,
             \A d \in Dispatchers : /\ at'[d] = at[d] /\ task'[d] = task[d]
                                     /\ goal'[d] = goal[d] /\ worker'[d] = worker[d]
      PROVE  /\ \A d \in Dispatchers : DispatcherCurrent(d)'
             /\ [Lifecycle!Next]_state
  <2>1. ASSUME NEW d \in Dispatchers
        PROVE  DispatcherCurrent(d)'
    BY <1>0, <1>1 DEF DispatcherCurrent, PendingUpdates
  <2>2. Legal(state[t], s)
    BY <1>1, LegalMoves
  <2>3. Lifecycle!Next
    BY <1>1, <2>2 DEF Legal, Lifecycle!Next, Lifecycle!Move, Lifecycle!Successors
  <2> QED
    BY <2>1, <2>3
<1>2. ASSUME state' = state, openOn' = openOn,
             \A d \in Dispatchers : /\ at'[d] = at[d] /\ task'[d] = task[d]
                                     /\ goal'[d] = goal[d] /\ worker'[d] = worker[d]
      PROVE  /\ \A d \in Dispatchers : DispatcherCurrent(d)'
             /\ [Lifecycle!Next]_state
  BY <1>2, <1>0 DEF DispatcherCurrent
<1>3. ASSUME NEW t \in Tasks,
             ApproveSelect(r, t) \/ ReviewSelect(r, t, "failed_terminal")
      PROVE  Goal
  BY <1>0, <1>2, <1>3 DEF ApproveSelect, ReviewSelect, Begin, ReviewerCurrent, dbVars
<1>4. CASE ApproveWrite(r)
  <2>1. /\ task[r] \in Tasks
        /\ ApproveAwaitingReview(task[r])
    BY <1>0, <1>4 DEF ApproveWrite, ReviewerCurrent
  <2>2. \A d \in Dispatchers : /\ at'[d] = at[d] /\ task'[d] = task[d]
                                /\ goal'[d] = goal[d] /\ worker'[d] = worker[d]
    BY <1>0, <1>4 DEF ApproveWrite, Return
  <2>3. ReviewerCurrent(r)'
    BY <1>0, <1>4 DEF ApproveWrite, Return, ReviewerCurrent
  <2> QED
    BY <1>1, <2>1, <2>2, <2>3 DEF ApproveAwaitingReview, WriteState
<1>5. CASE Write(r)
  <2>1. /\ task[r] \in Tasks
        /\ state[task[r]] = "awaiting_review"
        /\ goal[r] = "failed_terminal"
    BY <1>0, <1>5 DEF Write, ReviewerCurrent
  <2>2. \A d \in Dispatchers : /\ at'[d] = at[d] /\ task'[d] = task[d]
                                /\ goal'[d] = goal[d] /\ worker'[d] = worker[d]
    BY <1>0, <1>5, <2>1 DEF Write, Return
  <2>3. ReviewerCurrent(r)'
    BY <1>0, <1>5, <2>1 DEF Write, Return, ReviewerCurrent
  <2> QED
    BY <1>1, <1>5, <2>1, <2>2, <2>3 DEF Write, WriteState
<1> QED
  BY <1>3, <1>4, <1>5 DEF ReviewerStep

\* A client inserts a task nobody works on, or moves a control.
LEMMA ClientSolo ==
  ASSUME Uncontended, SoloInv, ClientStep
  PROVE  /\ \A d \in Dispatchers : DispatcherCurrent(d)'
         /\ \A r \in Reviewers : ReviewerCurrent(r)'
         /\ [Lifecycle!Next]_state
<1>0. /\ state \in [Tasks -> TaskStates \cup {"absent"}]
      /\ \A p \in Procs : at[p] # "idle" => task[p] \in Tasks
      /\ \A d \in Dispatchers : d \in Procs /\ DispatcherCurrent(d)
      /\ \A r \in Reviewers : r \in Procs /\ ReviewerCurrent(r)
      /\ UNCHANGED <<at, task, goal, worker>>
  BY DEF SoloInv, DispatchTypeOK, DBTypeOK, ProcTypeOK, Procs, ClientStep, procVars
<1>1. ASSUME NEW t \in Tasks, AddTask(t)
      PROVE  /\ \A d \in Dispatchers : DispatcherCurrent(d)'
             /\ \A r \in Reviewers : ReviewerCurrent(r)'
             /\ [Lifecycle!Next]_state
  <2>0. /\ state[t] = "absent"
        /\ state' = [state EXCEPT ![t] = "queued"]
        /\ openOn' = openOn
    BY <1>1 DEF AddTask, WriteState
  <2>1. ASSUME NEW d \in Dispatchers
        PROVE  DispatcherCurrent(d)'
    BY <1>0, <2>0 DEF DispatcherCurrent, PendingUpdates
  <2>2. ASSUME NEW r \in Reviewers
        PROVE  ReviewerCurrent(r)'
    BY <1>0, <2>0 DEF ReviewerCurrent
  <2>3. Lifecycle!Next
    BY <2>0 DEF Lifecycle!Next, Lifecycle!Insert
  <2> QED
    BY <2>1, <2>2, <2>3
<1>2. ASSUME NEW v, SetSchedule(v) \/ SetPlanning(v)
      PROVE  /\ \A d \in Dispatchers : DispatcherCurrent(d)'
             /\ \A r \in Reviewers : ReviewerCurrent(r)'
             /\ [Lifecycle!Next]_state
  BY <1>0, <1>2 DEF SetSchedule, SetPlanning, DispatcherCurrent, ReviewerCurrent
<1> QED
  BY <1>1, <1>2 DEF ClientStep, Uncontended

\* The initial states satisfy the invariant and every step preserves it.
LEMMA SoloInductive ==
  ASSUME Uncontended
  PROVE  /\ Init => SoloInv
         /\ SoloInv /\ DispatchTypeOK' /\ [Next]_vars
              => SoloInv' /\ [Lifecycle!Next]_state
<1>1. Init /\ DispatchTypeOK => SoloInv
  BY DEF Init, SoloInv, DispatcherCurrent, ReviewerCurrent, Procs
<1>2. ASSUME SoloInv, DispatchTypeOK', [Next]_vars
      PROVE  SoloInv' /\ [Lifecycle!Next]_state
  <2>1. ASSUME NEW d \in Dispatchers, DispatcherStep(d)
        PROVE  SoloInv' /\ [Lifecycle!Next]_state
    BY <1>2, <2>1, DispatcherSolo DEF SoloInv, Uncontended
  <2>2. ASSUME NEW r \in Reviewers, ReviewerStep(r)
        PROVE  SoloInv' /\ [Lifecycle!Next]_state
    BY <1>2, <2>2, ReviewerSolo DEF SoloInv, Uncontended
  <2>3. CASE ClientStep
    BY <1>2, <2>3, ClientSolo DEF SoloInv
  <2>4. CASE UNCHANGED vars
    BY <1>2, <2>4
    DEF vars, procVars, dbVars, SoloInv, DispatcherCurrent, ReviewerCurrent
  <2> QED
    BY <1>2, <2>1, <2>2, <2>3, <2>4 DEF Next, Uncontended
<1> QED
  BY <1>1, <1>2, InitTyped

\* Hence it is an invariant.
LEMMA SoloInvariance == ASSUME Uncontended PROVE Spec => []SoloInv
<1>1. /\ Init => SoloInv
      /\ SoloInv /\ DispatchTypeOK' /\ [Next]_vars => SoloInv'
  BY SoloInductive
<1> QED
  BY <1>1, DispatchTypeCorrect, PTL DEF Spec

(***************************************************************************)
(* One daemon and one reviewer never act on a stale reading, even if the   *)
(* daemon is killed and restarted between any two statements.              *)
(***************************************************************************)
THEOREM SoloNoStaleDecision ==
  ASSUME Uncontended PROVE Spec => []NoStaleDecision
<1>1. SoloInv => NoStaleDecision
  <2> SUFFICES ASSUME SoloInv, NEW p \in Procs
               PROVE  /\ at[p] \in {"claimed", "requeue"} => state[task[p]] = "claimed"
                      /\ at[p] \in {"running", "complete", "close"}
                           => state[task[p]] = "running"
                      /\ at[p] = "approve" => state[task[p]] = "awaiting_review"
                      /\ at[p] = "write"
                           => goal[p] \in STATE_TRANSITIONS[state[task[p]]]
    BY DEF NoStaleDecision
  <2>1. CASE p \in Dispatchers
    <3>1. DispatcherCurrent(p)
      BY <2>1 DEF SoloInv
    <3>2. at[p] = "write" => Legal(state[task[p]], goal[p])
      BY <3>1, LegalMoves DEF DispatcherCurrent
    <3> QED
      BY <3>1, <3>2 DEF DispatcherCurrent, Legal
  <2>2. CASE p \in Reviewers
    <3>1. ReviewerCurrent(p)
      BY <2>2 DEF SoloInv
    <3>2. at[p] = "write" => Legal(state[task[p]], goal[p])
      BY <3>1, LegalMoves DEF ReviewerCurrent
    <3> QED
      BY <3>1, <3>2 DEF ReviewerCurrent, Legal
  <2> QED
    BY <2>1, <2>2 DEF Procs, Uncontended
<1> QED
  BY <1>1, SoloInvariance, PTL

(***************************************************************************)
(* What the daemon executes is what the store shows as running: the        *)
(* conflict count of start_task misses no worker that is in use.           *)
(***************************************************************************)
THEOREM SoloExecutionRecorded ==
  ASSUME Uncontended PROVE Spec => []ExecutionRecorded
<1>1. SoloInv => ExecutionRecorded
  BY DEF SoloInv, ExecutionRecorded, DispatcherCurrent
<1> QED
  BY <1>1, SoloInvariance, PTL

(***************************************************************************)
(* Without contention the scheduler implements its transition table, for   *)
(* any number of tasks and with restarts at any point.                     *)
(***************************************************************************)
THEOREM SoloFollowsLifecycle ==
  ASSUME Uncontended PROVE Spec => FollowsLifecycle
<1>1. Init => Lifecycle!Init
  BY DEF Init, DBInit, Lifecycle!Init
<1>2. SoloInv /\ DispatchTypeOK' /\ [Next]_vars => [Lifecycle!Next]_state
  BY SoloInductive
<1> QED
  BY <1>1, <1>2, SoloInvariance, DispatchTypeCorrect, PTL
  DEF Spec, FollowsLifecycle, Lifecycle!Spec

-----------------------------------------------------------------------------
(***************************************************************************)
(* The attempts.  A method that ends a run closes the attempt before or    *)
(* after it updates the row: the UPDATE that suspends a task finds the     *)
(* attempt closed, and the one that completes it leaves it to closeAll.    *)
(***************************************************************************)
AttemptInv ==
  /\ \A t \in Tasks : openOn[t] # NoWorker =>
       state[t] \in {"running", "succeeded", "failed_terminal"}
  /\ \A d \in Dispatchers : at[d] = "write" => openOn[task[d]] = NoWorker

\* No attempt outlives the two UPDATEs of complete_task, unless a kill falls
\* between them.
ClosingInv == Killable = {} => NoOrphanAttempt

LEMMA DispatcherAttempts ==
  ASSUME Uncontended, SoloInv, AttemptInv, ClosingInv, NEW d \in Dispatchers, DispatcherStep(d)
  PROVE  AttemptInv' /\ ClosingInv'
<1> USE SchedulerAssumption DEF AttemptInv, ClosingInv, NoOrphanAttempt
<1>0. /\ state \in [Tasks -> TaskStates \cup {"absent"}]
      /\ openOn \in [Tasks -> Workers \cup {NoWorker}]
      /\ at \in [Procs -> PCs] /\ task \in [Procs -> Tasks \cup {NoTask}]
      /\ goal \in [Procs -> WrittenStates]
      /\ at[d] # "idle" => task[d] \in Tasks
      /\ d \in Procs /\ DispatcherCurrent(d)
      /\ \A e \in Dispatchers : e = d
  BY DEF SoloInv, DispatchTypeOK, DBTypeOK, ProcTypeOK, Procs, Uncontended
<1>1. ASSUME NEW t \in Tasks, Claim(d, t) PROVE AttemptInv' /\ ClosingInv'
  BY <1>0, <1>1 DEF Claim, ClaimTask, WriteState, Begin
<1>2. ASSUME NEW t \in Tasks, PromoteSelect(d, t) PROVE AttemptInv' /\ ClosingInv'
  BY <1>0, <1>2 DEF PromoteSelect, dbVars
<1>3. CASE RejectManifest(d)
  BY <1>0, <1>3 DEF RejectManifest, FailClaimedTask, WriteState, Return, dbVars
<1>4. ASSUME NEW w \in Workers, Start(d, w) PROVE AttemptInv' /\ ClosingInv'
  BY <1>0, <1>4 DEF Start, StartTask
<1>5. CASE StartRefused(d) \/ RequeueSelect(d)
  BY <1>0, <1>5 DEF StartRefused, RequeueSelect, Goto, GotoWrite, Return, DispatcherCurrent, dbVars
<1>6. ASSUME NEW s, HandlerDone(d, s) \/ HandlerSuspends(d, s) PROVE AttemptInv' /\ ClosingInv'
  BY <1>0, <1>6 DEF HandlerDone, HandlerSuspends, GotoWrite, Return, dbVars
<1>7. CASE CompleteWrite(d)
  <2>1. /\ at[d] = "complete" /\ at'[d] = "closeAll" /\ task' = task /\ openOn' = openOn
        /\ goal[d] \in {"succeeded", "failed_terminal"}
        /\ state' = [state EXCEPT ![task[d]] = goal[d]]
    BY <1>0, <1>7 DEF CompleteWrite, WriteState, Goto, DispatcherCurrent
  <2> QED
    BY <1>0, <2>1
<1>8. CASE CloseAll(d) \/ CloseCurrent(d)
  BY <1>0, <1>8 DEF CloseAll, CloseCurrent, CloseAttempt, Goto
<1>9. CASE Write(d)
  <2>1. /\ openOn[task[d]] = NoWorker /\ openOn' = openOn
        /\ \A t \in Tasks : t # task[d] => state'[t] = state[t]
        /\ at[d] = "write" /\ at'[d] \in {"recordReady", "idle"}
    BY <1>0, <1>9 DEF Write, WriteState, Goto, Return
  <2> QED
    BY <1>0, <2>1
<1>10. CASE RecordReady(d) \/ Kill(d)
  BY <1>0, <1>10 DEF RecordReady, RecordP40ReadyIfNeeded, Kill, Return, dbVars
<1> QED
  BY <1>1, <1>2, <1>3, <1>4, <1>5, <1>6, <1>7, <1>8, <1>9, <1>10 DEF DispatcherStep, Advance

LEMMA ReviewerAttempts ==
  ASSUME Uncontended, SoloInv, AttemptInv, ClosingInv,
         ClientStep \/ \E r \in Reviewers : ReviewerStep(r)
  PROVE  AttemptInv' /\ ClosingInv'
<1> USE DispatchAssumption DEF AttemptInv, ClosingInv, NoOrphanAttempt
<1>0. /\ state \in [Tasks -> TaskStates \cup {"absent"}]
      /\ at \in [Procs -> PCs] /\ task \in [Procs -> Tasks \cup {NoTask}]
  BY DEF SoloInv, DispatchTypeOK, DBTypeOK, ProcTypeOK
<1>1. ASSUME openOn' = openOn,
             \A t \in Tasks : openOn[t] # NoWorker => state'[t] = state[t],
             \A d \in Dispatchers : at'[d] = at[d] /\ task'[d] = task[d]
      PROVE  AttemptInv' /\ ClosingInv'
  BY <1>1
<1>2. CASE ClientStep
  <2>1. \A t \in Tasks : openOn[t] # NoWorker => state'[t] = state[t]
    BY <1>0, <1>2 DEF ClientStep, AddTask, WriteState, SetSchedule, SetPlanning, Uncontended
  <2>2. openOn' = openOn /\ UNCHANGED <<at, task>>
    BY <1>2 DEF ClientStep, AddTask, WriteState, SetSchedule, SetPlanning, Uncontended, procVars
  <2> QED
    BY <1>1, <2>1, <2>2
<1>3. ASSUME NEW r \in Reviewers, ReviewerStep(r) PROVE AttemptInv' /\ ClosingInv'
  <2>0. r \in Procs /\ (\A d \in Dispatchers : d \in Procs /\ d # r) /\ ReviewerCurrent(r)
        /\ (at[r] # "idle" => task[r] \in Tasks)
    BY DEF SoloInv, Procs, DispatchTypeOK, ProcTypeOK
  <2>1. openOn' = openOn /\ \A d \in Dispatchers : at'[d] = at[d] /\ task'[d] = task[d]
    BY <1>0, <1>3, <2>0 DEF ReviewerStep, ApproveSelect, ReviewSelect, ApproveWrite,
       ApproveAwaitingReview, Write, WriteState, Begin, Goto, Return, dbVars
  <2>2. \A t \in Tasks : state[t] # "awaiting_review" => state'[t] = state[t]
    BY <1>0, <1>3, <2>0 DEF ReviewerStep, ApproveSelect, ReviewSelect, ApproveWrite,
       ApproveAwaitingReview, Write, WriteState, Begin, dbVars, ReviewerCurrent
  <2> QED
    BY <1>1, <2>1, <2>2
<1> QED
  BY <1>2, <1>3

LEMMA SoloAttempts == ASSUME Uncontended PROVE Spec => [](AttemptInv /\ ClosingInv)
<1>1. Init => AttemptInv /\ ClosingInv
  BY DEF Init, DBInit, AttemptInv, ClosingInv, NoOrphanAttempt, Procs
<1>2. SoloInv /\ AttemptInv /\ ClosingInv /\ [Next]_vars => AttemptInv' /\ ClosingInv'
  <2>1. UNCHANGED vars /\ AttemptInv /\ ClosingInv => AttemptInv' /\ ClosingInv'
    BY DEF vars, dbVars, procVars, AttemptInv, ClosingInv, NoOrphanAttempt
  <2> QED
    BY <2>1, DispatcherAttempts, ReviewerAttempts DEF Next, Uncontended
<1> QED
  BY <1>1, <1>2, SoloInvariance, PTL DEF Spec

(***************************************************************************)
(* One daemon that is not killed leaves no attempt of a finished or        *)
(* waiting task open: complete_task closes what it has just ended.         *)
(***************************************************************************)
THEOREM SoloNoOrphanAttempt ==
  ASSUME Uncontended, Killable = {} PROVE Spec => []NoOrphanAttempt
<1>1. ClosingInv => NoOrphanAttempt
  BY DEF ClosingInv
<1> QED
  BY <1>1, SoloAttempts, PTL

(***************************************************************************)
(* Even if it is killed, no task that waits, is queued, claimed, cancelled *)
(* or awaits review has an open attempt: a kill can leave one open only    *)
(* for a task that runs or that complete_task has just ended.              *)
(***************************************************************************)
THEOREM SoloWaitingHasNoAttempt ==
  ASSUME Uncontended
  PROVE  Spec => [](\A t \in Tasks : openOn[t] # NoWorker =>
                       state[t] \in {"running", "succeeded", "failed_terminal"})
<1>1. AttemptInv => \A t \in Tasks : openOn[t] # NoWorker =>
                       state[t] \in {"running", "succeeded", "failed_terminal"}
  BY DEF AttemptInv
<1> QED
  BY <1>1, SoloAttempts, PTL
=============================================================================

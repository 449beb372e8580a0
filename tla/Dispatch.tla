------------------------------ MODULE Dispatch -------------------------------
(***************************************************************************)
(* The processes that share the scheduler's store, at the granularity of   *)
(* its transactions: dispatchers run the loop of gtx_broker/daemon.py for  *)
(* tasks without a staged input, operators cancel tasks and set controls   *)
(* through the status API, reviewers decide on awaiting_review tasks, and  *)
(* maintainers call the two public methods that have no caller in the      *)
(* repository (retry_task, requeue_awaiting_review).                       *)
(*                                                                         *)
(* at[p] names the next statement of process p, task[p] the task it works  *)
(* on, goal[p] the state a pending UPDATE will write, and worker[d] the    *)
(* worker on which dispatcher d executes a handler.                        *)
(***************************************************************************)
EXTENDS Scheduler

CONSTANTS
  Dispatchers, Reviewers, Maintainers,
  NoTask,
  Cancellable,   \* tasks an operator may ask the status API to cancel
  Controls,      \* the controls the operator changes
  Killable       \* dispatchers that may be killed and restarted

Procs == Dispatchers \cup Reviewers \cup Maintainers

ASSUME DispatchAssumption ==
  /\ NoTask \notin Tasks
  /\ Cancellable \subseteq Tasks
  /\ Controls \subseteq {"schedule", "planning"}
  /\ Killable \subseteq Dispatchers
  /\ Dispatchers \cap Reviewers = {}
  /\ Dispatchers \cap Maintainers = {}
  /\ Reviewers \cap Maintainers = {}

VARIABLES at, task, goal, worker

procVars == <<at, task, goal, worker>>
vars == <<dbVars, procVars>>

PCs == {"idle", "claimed", "requeue", "running",
        "complete", "closeAll", "close", "write", "approve", "recordReady"}

-----------------------------------------------------------------------------
(* Moves of a process. *)

BeginUnbound(p, pc, t) ==   \* mutant: the task is not remembered
  at' = [at EXCEPT ![p] = pc] /\ UNCHANGED <<task, goal, worker>>

Begin(p, pc, t) ==
  /\ at' = [at EXCEPT ![p] = pc]
  /\ task' = [task EXCEPT ![p] = t]
  /\ UNCHANGED <<goal, worker>>

Goto(p, pc) ==
  /\ at' = [at EXCEPT ![p] = pc]
  /\ UNCHANGED <<task, goal, worker>>

GotoWrite(p, pc, s) ==
  /\ at' = [at EXCEPT ![p] = pc]
  /\ goal' = [goal EXCEPT ![p] = s]
  /\ UNCHANGED <<task, worker>>

Return(p) ==
  /\ at' = [at EXCEPT ![p] = "idle"]
  /\ task' = [task EXCEPT ![p] = NoTask]
  /\ goal' = [goal EXCEPT ![p] = "queued"]
  /\ worker' = [worker EXCEPT ![p] = NoWorker]

-----------------------------------------------------------------------------
(* A dispatcher: SchedulerDaemon.run and _dispatch_task. *)

\* claim_task of the task get_next_task returned.
Claim(d, t) == at[d] = "idle" /\ ClaimTask(t) /\ Begin(d, "claimed", t)

\* requeue_retry_wait: SELECT, then an unconditional UPDATE to queued.
PromoteSelect(d, t) ==
  /\ at[d] = "idle"
  /\ state[t] = "retry_wait"
  /\ at' = [at EXCEPT ![d] = "write"]
  /\ task' = [task EXCEPT ![d] = t]
  /\ goal' = [goal EXCEPT ![d] = "queued"]
  /\ UNCHANGED <<worker, dbVars>>

\* The manifest no longer validates: fail_claimed_task, a no-op if cancelled.
RejectManifest(d) ==
  /\ at[d] = "claimed"
  /\ task[d] \in ManifestTasks
  /\ \/ FailClaimedTask(task[d])
     \/ state[task[d]] # "claimed" /\ UNCHANGED dbVars
  /\ Return(d)

Start(d, w) ==
  /\ at[d] = "claimed"
  /\ w \in WorkersFor[task[d]]
  /\ StartTask(task[d], w)
  /\ at' = [at EXCEPT ![d] = "running"]
  /\ worker' = [worker EXCEPT ![d] = w]
  /\ UNCHANGED <<task, goal>>

StartRefusedDropped(d) ==   \* mutant: a refused claim is not given back
  at[d] = "claimed" /\ Return(d) /\ UNCHANGED dbVars

\* No worker is available, or start_task refuses one that may be offered.
StartRefused(d) ==
  /\ at[d] = "claimed"
  /\ Goto(d, "requeue")
  /\ UNCHANGED dbVars

\* requeue_claimed_to_retry_wait reads the state; its UPDATE comes later.
RequeueSelect(d) ==
  /\ at[d] = "requeue"
  /\ IF state[task[d]] = "claimed" THEN GotoWrite(d, "write", "retry_wait")
                                   ELSE Return(d)
  /\ UNCHANGED dbVars

\* The handler returns and complete_task reads the state.
HandlerDone(d, s) ==
  /\ at[d] = "running"
  /\ s \in {"succeeded", "failed_terminal"}
  /\ IF state[task[d]] = "running" THEN GotoWrite(d, "complete", s) ELSE Return(d)
  /\ UNCHANGED dbVars

\* complete_task updates the row first and the attempts in a second statement.
CompleteWrite(d) ==
  /\ at[d] = "complete"
  /\ WriteState(task[d], goal[d])
  /\ Goto(d, "closeAll")

CloseAll(d) ==
  /\ at[d] = "closeAll"
  /\ CloseAttempt(task[d])
  /\ Goto(d, "recordReady")

HandlerSuspendsOpen(d, s) ==   \* mutant: the attempt is not closed
  /\ at[d] = "running"
  /\ s \in {"retry_wait", "awaiting_review"}
  /\ GotoWrite(d, "write", s)
  /\ UNCHANGED dbVars

\* transition_running_to_retry_wait and transition_running_to_awaiting_review
\* read the state, close the attempt, and update the row last.
HandlerSuspends(d, s) ==
  /\ at[d] = "running"
  /\ s \in {"retry_wait", "awaiting_review"}
  /\ IF state[task[d]] = "running" THEN GotoWrite(d, "close", s) ELSE Return(d)
  /\ UNCHANGED dbVars

CloseCurrent(p) ==
  /\ at[p] = "close"
  /\ CloseAttempt(task[p])
  /\ Goto(p, "write")

\* The UPDATE that ends a split method.  Only requeue_claimed_to_retry_wait and
\* retry_task go on to record that the P40 is ready; a dispatcher that executed
\* a handler (worker[p] is set) is in transition_running_to_retry_wait.
Write(p) ==
  /\ at[p] = "write"
  /\ WriteState(task[p], goal[p])
  /\ IF goal[p] = "retry_wait" /\ worker[p] = NoWorker
       THEN Goto(p, "recordReady") ELSE Return(p)

RecordReady(p) == at[p] = "recordReady" /\ RecordP40ReadyIfNeeded /\ Return(p)

\* The daemon is killed.  After a restart _recover_interrupted_tasks visits
\* staged inputs only, so these tasks stay as the last transaction left them.
Kill(d) ==
  /\ d \in Killable
  /\ at[d] # "idle"
  /\ Return(d)
  /\ UNCHANGED dbVars

-----------------------------------------------------------------------------
(* Reviewers and maintainers. *)

ApproveSelectAny(r, t) ==   \* mutant: the state is not read first
  /\ at[r] = "idle"
  /\ t \notin ManifestTasks
  /\ Begin(r, "approve", t)
  /\ UNCHANGED dbVars

\* approve_awaiting_review refuses manifest tasks.
ApproveSelect(r, t) ==
  /\ at[r] = "idle"
  /\ state[t] = "awaiting_review"
  /\ t \notin ManifestTasks
  /\ Begin(r, "approve", t)
  /\ UNCHANGED dbVars

ApproveWrite(r) ==
  /\ at[r] = "approve"
  /\ \/ ApproveAwaitingReview(task[r])
     \/ state[task[r]] # "awaiting_review" /\ UNCHANGED dbVars
  /\ Return(r)

ReviewSelectAny(p, t, s) ==   \* mutant: the state is not read first
  /\ at[p] = "idle"
  /\ at' = [at EXCEPT ![p] = "write"]
  /\ task' = [task EXCEPT ![p] = t]
  /\ goal' = [goal EXCEPT ![p] = s]
  /\ UNCHANGED <<worker, dbVars>>

\* transition_awaiting_review_to_failed, or requeue_awaiting_review.
ReviewSelect(p, t, s) ==
  /\ at[p] = "idle"
  /\ state[t] = "awaiting_review"
  /\ at' = [at EXCEPT ![p] = "write"]
  /\ task' = [task EXCEPT ![p] = t]
  /\ goal' = [goal EXCEPT ![p] = s]
  /\ UNCHANGED <<worker, dbVars>>

\* retry_task: SELECT, close the attempt, UPDATE, record readiness.
RetrySelect(m, t) ==
  /\ at[m] = "idle"
  /\ state[t] = "running"
  /\ at' = [at EXCEPT ![m] = "close"]
  /\ task' = [task EXCEPT ![m] = t]
  /\ goal' = [goal EXCEPT ![m] = "retry_wait"]
  /\ UNCHANGED <<worker, dbVars>>

-----------------------------------------------------------------------------
Init ==
  /\ DBInit
  /\ at = [p \in Procs |-> "idle"]
  /\ task = [p \in Procs |-> NoTask]
  /\ goal = [p \in Procs |-> "queued"]
  /\ worker = [p \in Procs |-> NoWorker]

\* A dispatcher goes on with what it has begun.
Advance(d) ==
  \/ RejectManifest(d)
  \/ \E w \in Workers : Start(d, w)
  \/ StartRefused(d)
  \/ RequeueSelect(d)
  \/ \E s \in {"succeeded", "failed_terminal"} : HandlerDone(d, s)
  \/ CompleteWrite(d)
  \/ CloseAll(d)
  \/ \E s \in {"retry_wait", "awaiting_review"} : HandlerSuspends(d, s)
  \/ CloseCurrent(d)
  \/ Write(d)
  \/ RecordReady(d)

DispatcherStep(d) ==
  \/ \E t \in Tasks : Claim(d, t) \/ PromoteSelect(d, t)
  \/ Advance(d)
  \/ Kill(d)

ReviewerStep(r) ==
  \/ \E t \in Tasks : ApproveSelect(r, t) \/ ReviewSelect(r, t, "failed_terminal")
  \/ ApproveWrite(r)
  \/ Write(r)

MaintainerStep(m) ==
  \/ \E t \in Tasks : RetrySelect(m, t) \/ ReviewSelect(m, t, "queued")
  \/ CloseCurrent(m)
  \/ Write(m)
  \/ RecordReady(m)

\* Clients of the status API and of the ingress.
ClientStep ==
  /\ \/ \E t \in Tasks : AddTask(t)
     \/ \E t \in Cancellable : CancelTask(t)
     \/ "schedule" \in Controls /\ \E v \in {"on", "off"} : SetSchedule(v)
     \/ "planning" \in Controls /\ \E v \in {"on", "off"} : SetPlanning(v)
  /\ UNCHANGED procVars

Next ==
  \/ \E d \in Dispatchers : DispatcherStep(d)
  \/ \E r \in Reviewers : ReviewerStep(r)
  \/ \E m \in Maintainers : MaintainerStep(m)
  \/ ClientStep

Spec == Init /\ [][Next]_vars

(***************************************************************************)
(* A dispatcher that is in a method goes on: every call it makes returns   *)
(* (SQLite calls time out, and handlers run under timeouts but for their   *)
(* git commands, which are taken to return).  Nothing is assumed of        *)
(* clients, reviewers or maintainers.                                      *)
(***************************************************************************)
FairSpec == Spec /\ \A d \in Dispatchers : WF_vars(Advance(d))

-----------------------------------------------------------------------------
(* Properties.  ResourceExclusion and ReadyMeansFree are in Scheduler. *)

\* One daemon, one reviewer, no maintenance calls and no cancellations: what
\* the split methods of the scheduler rely on.
Uncontended ==
  /\ \A d, e \in Dispatchers : d = e
  /\ \A r, q \in Reviewers : r = q
  /\ Maintainers = {}
  /\ Cancellable = {}

ProcTypeOK ==
  /\ at \in [Procs -> PCs]
  /\ task \in [Procs -> Tasks \cup {NoTask}]
  /\ goal \in [Procs -> WrittenStates]
  /\ worker \in [Procs -> Workers \cup {NoWorker}]
  /\ \A p \in Procs : at[p] # "idle" => task[p] \in Tasks

DispatchTypeOK == DBTypeOK /\ ProcTypeOK

(***************************************************************************)
(* While a dispatcher executes a handler, the store says so: the task is   *)
(* running and its open attempt names the worker in use.  Otherwise the    *)
(* conflict count of start_task would not see a worker that is in use.     *)
(***************************************************************************)
ExecutionRecorded ==
  \A d \in Dispatchers : at[d] = "running" =>
     state[task[d]] = "running" /\ openOn[task[d]] = worker[d]

(***************************************************************************)
(* No process acts on a stale reading: the state it read when it chose its *)
(* next statement is the state that statement finds, so an UPDATE without  *)
(* a condition on the state still makes a legal transition.                *)
(***************************************************************************)
NoStaleDecision ==
  \A p \in Procs :
    /\ at[p] \in {"claimed", "requeue"} => state[task[p]] = "claimed"
    /\ at[p] \in {"running", "complete", "close"} => state[task[p]] = "running"
    /\ at[p] = "approve" => state[task[p]] = "awaiting_review"
    /\ at[p] = "write" => goal[p] \in STATE_TRANSITIONS[state[task[p]]]

(***************************************************************************)
(* An attempt stays open only while its task runs, or while complete_task  *)
(* stands between its two UPDATEs: no finished or waiting task keeps one.  *)
(***************************************************************************)
NoOrphanAttempt ==
  \A t \in Tasks : openOn[t] # NoWorker =>
     \/ state[t] = "running"
     \/ \E d \in Dispatchers : at[d] = "closeAll" /\ task[d] = t

(***************************************************************************)
(* STATE_TRANSITIONS is the whole truth about how a task's state changes,  *)
(* although most of its UPDATEs do not look at the state they overwrite.   *)
(***************************************************************************)
Lifecycle == INSTANCE TaskLifecycle WITH Transitions <- STATE_TRANSITIONS

FollowsLifecycle == Lifecycle!Spec

(***************************************************************************)
(* A claim is always resolved and a run always ends: the daemon does not   *)
(* lose a task it took from the queue.                                     *)
(***************************************************************************)
ClaimsResolve ==
  \A t \in Tasks : state[t] \in {"claimed", "running"}
                    ~> state[t] \notin {"claimed", "running"}

(***************************************************************************)
(* If planning mode stays on, the P40 drains and stays free.               *)
(***************************************************************************)
PlanningDrains == <>[](planning = "on") => <>[](~P40Busy)
=============================================================================

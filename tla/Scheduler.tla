------------------------------ MODULE Scheduler ------------------------------
(***************************************************************************)
(* The scheduler's SQLite store (gtx_broker/scheduler/scheduler.py): the   *)
(* rows of tasks, task_attempts, scheduler_controls and control_events,    *)
(* and the statements the scheduler's methods run on them.                 *)
(*                                                                         *)
(* A connection is opened with isolation_level=None, so a statement that   *)
(* is not between BEGIN IMMEDIATE and COMMIT is a transaction of its own.  *)
(* A method that opens BEGIN IMMEDIATE is ONE action here; a method that   *)
(* reads a state and later updates the row is split into one operator per  *)
(* statement, and the modules that EXTEND this one interleave them.  This  *)
(* module has no processes: who calls what, and when, is theirs to say.    *)
(***************************************************************************)
EXTENDS FiniteSets

CONSTANTS
  Tasks,          \* task ids
  Workers,        \* profiles in the workers table
  Resources,      \* values of exclusive_resource
  P40,            \* the resource the operator can reserve with planning mode
  NoResource,     \* exclusive_resource IS NULL
  NoWorker,       \* no open attempt
  ResourceOf,     \* worker -> its exclusive_resource
  WorkersFor,     \* task -> profiles select_worker_for_task may return for it
  P40Tasks,       \* tasks for which _task_requires_p40 is true
  ManifestTasks   \* tasks whose payload carries a manifest

ASSUME SchedulerAssumption ==
  /\ P40 \in Resources
  /\ NoResource \notin Resources
  /\ NoWorker \notin Workers
  /\ ResourceOf \in [Workers -> Resources \cup {NoResource}]
  /\ WorkersFor \in [Tasks -> SUBSET Workers]
  /\ P40Tasks \subseteq Tasks
  /\ ManifestTasks \subseteq Tasks

VARIABLES
  state,        \* tasks.state, "absent" before the row is inserted
  openOn,       \* the worker of the task's attempt with end_at IS NULL
  used,         \* the workers of all its attempts, open or closed
  schedule,     \* control "schedule"
  planning,     \* control "planning"
  readyLogged   \* a p40_ready event follows the last planning-on event

dbVars == <<state, openOn, used, schedule, planning, readyLogged>>

-----------------------------------------------------------------------------
(* The state machine of a task. *)

TaskStates ==
  {"accepted", "queued", "claimed", "running", "succeeded",
   "failed_terminal", "retry_wait", "awaiting_review", "cancelled"}

STATE_TRANSITIONS ==
  [ accepted        |-> {"queued", "cancelled"},
    queued          |-> {"claimed", "cancelled"},
    claimed         |-> {"running", "retry_wait", "failed_terminal", "cancelled"},
    running         |-> {"succeeded", "failed_terminal", "retry_wait",
                         "awaiting_review"},
    succeeded       |-> {},
    failed_terminal |-> {},
    retry_wait      |-> {"queued"},
    awaiting_review |-> {"queued", "succeeded", "failed_terminal"},
    cancelled       |-> {} ]

FinalStates == {"succeeded", "failed_terminal", "cancelled"}

-----------------------------------------------------------------------------
(* What the queries of the store see. *)

HeldBy(ws, r) == \E w \in ws : ResourceOf[w] = r

OpenWorkers(t) == {openOn[t]} \ {NoWorker}

\* Running work with an open attempt on a worker of resource r.
Holds(t, r) == state[t] = "running" /\ HeldBy(OpenWorkers(t), r)

\* _p40_busy_cursor: an open P40 attempt, or a claim that is routed to the P40.
P40Busy ==
  \/ \E t \in Tasks : Holds(t, P40)
  \/ \E t \in P40Tasks : state[t] = "claimed"

\* start_task's conflict count joins running tasks with ALL their attempts.
Conflicts(w) ==
  \E t \in Tasks : /\ state[t] = "running"
                   /\ ResourceOf[w] # NoResource
                   /\ HeldBy(used[t], ResourceOf[w])

StartAllowedUnlocked(t, w) ==   \* mutant: no conflict count
  state[t] = "claimed" /\ ~(planning = "on" /\ ResourceOf[w] = P40)

StartAllowed(t, w) ==
  /\ state[t] = "claimed"
  /\ ~(planning = "on" /\ ResourceOf[w] = P40)
  /\ ~Conflicts(w)

-----------------------------------------------------------------------------
(* Single UPDATE statements, each a transaction of its own. *)

\* UPDATE tasks SET state = s WHERE id = t: no condition on the current state.
WriteState(t, s) ==
  /\ state' = [state EXCEPT ![t] = s]
  /\ UNCHANGED <<openOn, used, schedule, planning, readyLogged>>

\* UPDATE task_attempts SET end_at = now WHERE task_id = t AND end_at IS NULL.
CloseAttempt(t) ==
  /\ openOn' = [openOn EXCEPT ![t] = NoWorker]
  /\ UNCHANGED <<state, used, schedule, planning, readyLogged>>

-----------------------------------------------------------------------------
(* Methods that are one transaction. *)

\* add_task: the row is inserted as queued; a second insert of the id fails.
AddTask(t) == state[t] = "absent" /\ WriteState(t, "queued")

ClaimTaskUnplanned(t) ==   \* mutant: planning mode is not looked at
  state[t] = "queued" /\ schedule = "on" /\ WriteState(t, "claimed")

ClaimTask(t) ==
  /\ state[t] = "queued"
  /\ schedule = "on"
  /\ ~(planning = "on" /\ t \in P40Tasks)
  /\ WriteState(t, "claimed")

StartTaskUnrecorded(t, w) ==   \* mutant: no attempt is inserted
  StartAllowed(t, w) /\ WriteState(t, "running")

\* The open attempt, if any, is closed before the new one is inserted.
StartTask(t, w) ==
  /\ StartAllowed(t, w)
  /\ state' = [state EXCEPT ![t] = "running"]
  /\ openOn' = [openOn EXCEPT ![t] = w]
  /\ used' = [used EXCEPT ![t] = @ \cup {w}]
  /\ UNCHANGED <<schedule, planning, readyLogged>>

FailClaimedTask(t) == state[t] = "claimed" /\ WriteState(t, "failed_terminal")

CancelTask(t) ==
  /\ state[t] \in DOMAIN STATE_TRANSITIONS
  /\ "cancelled" \in STATE_TRANSITIONS[state[t]]
  /\ WriteState(t, "cancelled")

\* approve_awaiting_review's UPDATE is conditional on the state it expects.
ApproveAwaitingReview(t) ==
  state[t] = "awaiting_review" /\ WriteState(t, "succeeded")

RecordP40ReadyIfNeeded ==
  /\ readyLogged' = (readyLogged \/ (planning = "on" /\ ~P40Busy))
  /\ UNCHANGED <<state, openOn, used, schedule, planning>>

SetSchedule(v) ==
  /\ schedule' = v
  /\ UNCHANGED <<state, openOn, used, planning, readyLogged>>

\* Turning planning on is logged, and so is readiness when the P40 is free.
SetPlanning(v) ==
  /\ planning' = v
  /\ readyLogged' = IF v = "on" /\ planning # "on" THEN ~P40Busy ELSE readyLogged
  /\ UNCHANGED <<state, openOn, used, schedule>>

-----------------------------------------------------------------------------
DBInit ==
  /\ state = [t \in Tasks |-> "absent"]
  /\ openOn = [t \in Tasks |-> NoWorker]
  /\ used = [t \in Tasks |-> {}]
  /\ schedule = "on"
  /\ planning = "off"
  /\ readyLogged = FALSE

\* The states an unconditional UPDATE writes: never a claim, never a start.
WrittenStates ==
  {"queued", "succeeded", "failed_terminal", "retry_wait", "awaiting_review"}

(***************************************************************************)
(* One transaction of any caller.  A caller may write a stale decision     *)
(* over any state, so the store alone promises only what claim_task and    *)
(* start_task check under their own lock.                                  *)
(***************************************************************************)
StoreNext ==
  \/ \E t \in Tasks :
       \/ ClaimTask(t) \/ CancelTask(t) \/ CloseAttempt(t)
       \/ \E w \in Workers : StartTask(t, w)
       \/ \E s \in WrittenStates : WriteState(t, s)
  \/ RecordP40ReadyIfNeeded
  \/ \E v \in {"on", "off"} : SetSchedule(v) \/ SetPlanning(v)

StoreSpec == DBInit /\ [][StoreNext]_dbVars

DBTypeOK ==
  /\ state \in [Tasks -> TaskStates \cup {"absent"}]
  /\ openOn \in [Tasks -> Workers \cup {NoWorker}]
  /\ used \in [Tasks -> SUBSET Workers]
  /\ schedule \in {"on", "off"}
  /\ planning \in {"on", "off"}
  /\ readyLogged \in BOOLEAN

\* A running task's open attempt is one of its attempts.
AttemptsRecorded == \A t \in Tasks : OpenWorkers(t) \subseteq used[t]

(***************************************************************************)
(* Two running tasks never hold an exclusive resource at once: start_task  *)
(* counts the conflicts under the write lock that makes the claim running. *)
(***************************************************************************)
ResourceExclusion ==
  \A r \in Resources, t, u \in Tasks : Holds(t, r) /\ Holds(u, r) => t = u

(***************************************************************************)
(* Once p40_ready has been announced for the current planning session, no  *)
(* task holds the P40 and no claim is on its way to it: the operator who   *)
(* was told the P40 is free keeps it until planning is switched off.       *)
(***************************************************************************)
ReadyMeansFree == planning = "on" /\ readyLogged => ~P40Busy
=============================================================================

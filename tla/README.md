# Formal model of gtx-broker

gtx-broker queues, dispatches and supervises work for one machine with a single P40 GPU: vision
tasks with a durable input file, coding tasks with a manifest, nightly batches, and a
"second shift" that runs backlog items when the paid model's credits are gone. This directory
holds TLA+ modules that model its scheduling core, the TLC configurations that check them on
small instances, and theorems about them that TLAPS proves for every instance.

Paths are relative to the repository (`src/` prefixes them in `PROJECT.json`, which also maps
every definition to the lines it translates).

## 1. Inventory

| Component | State it keeps | Operations | Interacts with |
|---|---|---|---|
| Scheduler store, `gtx_broker/scheduler/scheduler.py`, `migrations/` | SQLite rows: `tasks.state`, `task_attempts` (open while `end_at IS NULL`), `workers`, `scheduler_controls`, `control_events` | `add_task`, `claim_task`, `start_task`, `complete_task`, `cancel_task`, `fail_claimed_task`, `retry_task`, the `requeue_*` and `transition_*` methods, `set_control`, the queue listings | every process below, through its own connection |
| Daemon, `gtx_broker/daemon.py` | the task in hand; nothing persistent | poll, claim, start a worker, run the handler, settle input and task; restart recovery; retention | store, durable inputs, handlers |
| Durable inputs, `gtx_broker/scheduler/storage.py` | one directory per input in `incoming`, `processing` or `processed`, with `metadata.json` | `stage_input`, `claim_for_processing`, `complete_task`, `requeue_for_retry`, `update_metadata`, `cleanup_old_tasks` | daemon, ingress, review service |
| Retired Telegram ingress, `gtx_broker/telegram_ingress.py` | none | stage, quality gate, enqueue, mark queued, reject | inputs, store |
| Telegram staging, `gtx_broker/telegram_staging.py` | one directory per task id, under one lock; each event is a process of its own | `stage_event`: answer a replay, repair, or assemble, publish, mark saved; remove what could not be marked | inputs |
| Status API, `gtx_broker/status_api.py` | none | cancel, controls, read-only status | store |
| Vision review, `gtx_broker/scheduler/review.py` | none | approve, reject: metadata first, then the store | store, inputs |
| Window policies, `gtx_broker/scheduler/policies.py` and `get_pending_tasks` | none | which queued tasks a window offers, in which order | store, daemon |
| Worker registry, `gtx_broker/scheduler/workers.py` | worker status | register, select, status changes | store, daemon |
| P40 model-profile lease, `gtx_broker/scheduler/model_profiles.py` | a lock of the machine; the service's loaded model | take the lease, look, probe, switch by a wrapper under sudo, verify; the daemon's remediation | daemon, `scripts/switch-p40-model` |
| Handlers, `gtx_broker/scheduler/handlers.py` | `last_result`, in singletons that outlive the tasks | run one task under a timeout, return a `HandlerResult` | daemon, profile lease |
| Epoch manager, `gtx_broker/scheduler/epoch_manager.py` | epoch rows, `tasks.epoch_id` | create, attach, barrier, trigger review | store |
| Broker controller, classifier, escalation, state file (`controller.py`, `classifier.py`, `escalation_policy.py`, `state.py`) | a registry and a ledger in files | classify, dispatch, count attempts, escalate | second shift |
| Task manifest, repository boundary | none | validate | daemon, adapter |
| Second-shift pool: `dispatch.py`, `pool_recovery.py`, `credit_state.py`, `registry.py`, `ledger.py`, `state.py` (`second_shift/`) | a registry and a ledger file under one lock | route, attempt, record; observe, quarantine, reactivate; credit states | broker controller |
| Backlog runner, manifest and execution adapter (`second_shift/`) | the same registry file, one record per item | admit, run, checkpoint, settle and recover backlog items | second-shift dispatch, broker controller |
| Repository and vault readers, tools, quality, entry points | none | read and format | - |

What is hard in it, and what makes each part correct:

- **Store.** A connection runs in autocommit: only `add_task`, `claim_task`, `start_task`,
  `cancel_task`, `fail_claimed_task` and the control methods hold a write lock. The other methods
  read a state and update the row in a later statement without a condition on what they read. It must
  keep one holder of each exclusive resource, honour planning mode (the operator's reservation of
  the P40), and move a task only along `STATE_TRANSITIONS`.
- **Daemon and inputs.** Two stores, no common transaction: the order of the writes and the restart
  recovery have to bring them together after a kill anywhere. A result must be durable before it is
  reported, must not be computed twice, and no task may be lost.
- **Ingress, review, retention.** They write the metadata the daemon's recovery relies on, without a
  lock shared with it.
- **Telegram staging.** A sender that was told *saved* will not come back. What it was told must hold
  through every later replay, kill, failing operation and repair.
- **Profile lease and handlers.** The wrapper that switches the model outlives the daemon that
  waits for it; the handler keeps the result of the task before. A handler must run under its own model,
  and a verdict must be closed with its own result.
- **Pool.** The registry and the ledger are two files; a routing decision is written in one hold of the
  lock and read back in the next. The P40 may be left only for failures that are on record, and observing
  the pool must not itself change what the next observation sees.
- **Policies.** Every task kind must be offered by some window; order is priority.
- **Backlog.** Outcomes span several transactions on one file; the list of items a runner holds through a
  long execution is written back at its end; a kill anywhere is followed by another runner.
- **Epochs.** The barrier is checked in one statement and acted on in another.

`PROJECT.json` lists the hazards line by line, each with the properties aimed at it.

## 2. Modules

```
Scheduler ──┬── Dispatch ── MCDispatch          TaskLifecycle   (abstract specification)
            ├── Daemon ──── MCDaemon                 ^ refined by Dispatch and Daemon
Storage ────┘
Policy ─────── Queue ────── MCQueue
Scheduler_proofs ──┬── Dispatch_proofs           StoreSpec       (abstract specification)
                   └── Daemon_proofs                 ^ implemented by Dispatch and Daemon
Queue_proofs
Escalation ─── Backlog ──── MCBacklog           BacklogLifecycle (abstract specification)
               Backlog_proofs                        ^ refined by Backlog
Pool ───────── MCPool           Pool_proofs
Profile ────── MCProfile        Profile_proofs
Staging ────── MCStaging        Staging_proofs
```

The two halves meet nowhere: the second shift works on its own manifest and state files and never
touches the scheduler's database. `Profile` takes apart what is one step in `Dispatch` and `Daemon`,
the execution of a started task; `Staging` is another writer of the directories of `Storage`, kept
apart because nothing it stages is ever enqueued.

**`Scheduler`** - the database. `state` is `tasks.state` (`"absent"` before the insert), `openOn` the
worker of the attempt with `end_at IS NULL`, `used` the workers of all attempts of the task,
`schedule` and `planning` the controls, `readyLogged` whether a `p40_ready` event follows the last
planning-on event. A method under `BEGIN IMMEDIATE` is one operator (`ClaimTask`, `StartTask`,
`CancelTask`, `FailClaimedTask`, `SetPlanning`, ...); of the others each UPDATE is one (`WriteState`,
`CloseAttempt`, `RecordP40ReadyIfNeeded`). `Conflicts` counts as `start_task` does: over all attempts
of running tasks, open or not. `StoreNext` lets any caller run any of these transactions in any
order, with any decision: it is the weakest thing one can say about the callers, and the
specification `StoreSpec` is what the store promises by itself.

**`TaskLifecycle`** - the abstract specification of a task: changes follow a table of transitions.

**`Dispatch`** - the processes that share the store, one statement per step. `at[p]` is the next
statement of process `p`, `task[p]` its task, `goal[p]` the state a pending UPDATE will write. Dispatchers
run `SchedulerDaemon.run` and `_dispatch_task` for tasks without a staged input; reviewers run
`VisionReviewService`'s scheduler side; maintainers call `retry_task` and `requeue_awaiting_review`,
which are public but have no caller in the repository; clients add and cancel tasks and set controls.
A dispatcher in `Killable` may be killed at any point.

**`Storage`** - the durable inputs. `dir`, `status`, `outcome` (`scheduler_outcome`) and `torn` (the file
no longer parses) per input. One operator per file-system call.

**`Daemon`** - the daemon with both stores, every method of either a chain of steps. `at` is the next
call, `then` the method that follows it, `task` and `goal` its arguments, `todo` the inputs a restarted
daemon has still to reconcile. `Crash` may strike at every point in `CrashPoints` and tear the
metadata at those of `InPlaceWrites` that are in `TearPoints`; `CallFails` is a call that returns an error.
`Restart` and `Recover*` are `__init__` and `_recover_interrupted_tasks`; `RecoverTorn` is the read that
raises out of them. The ingress (`Stage` ... `CancelRejected`), cancellation, retention and reviews run
beside it. A review (`ReviewRead`, `ReviewWrite`, `Decide`) reads the task and the metadata, writes the
metadata with the decision where it found it, and then decides in the store; `scheduler_outcome` stays as it
was, so an approved task is `succeeded` with the outcome `awaiting_review`. `update_metadata` returns False for a
task without an input, so only inputs are decided on. Each input has one review at a time; several
reviewers of one task are in `Dispatch`. The controls keep their initial values here; `Dispatch` varies them.

**`Policy`** - the decisions about one task as pure operators over its columns: the window of an hour,
which tasks a window offers (`Eligible`) and in which order (`Outranks`), whether the claim takes it for
P40 work (`RequiresP40`), its worker (`SelectWorker`), and the capability check of the start (`CanRun`, for
each worker the kinds that its substring match lets through). The names of workers in a task are any strings
(`Names`): `add_task` does not check them. `OpenWindow` is the window `get_pending_tasks` works in, from the
controls, the clock and the images.

**`Queue`** - the polling loop in front of a dispatch. `get_pending_tasks` reads the controls, counts the
pending images and selects the rows in three statements, and the claim follows later, so `ReadControls`,
`CountVision`, `Pick` and `Claim` are separate steps; `seen` and `window` are what the loop remembers.
Clock, controls, worker availability, new tasks and cancellations move between any two of them. What
follows a claim is one step per method here; `Dispatch` has the interleavings of those.

**`Escalation`** - `classifier.py` and `escalation_policy.py` as operators: the worker a coding goal starts
with, and the worker that gets the attempt after a success, a substantive or an operational failure. What
the keyword searches find in a description or a review is a class or a trigger.

**`BacklogLifecycle`** - the abstract specification of the queue: manifest order, one item at a time,
completed items are left alone.

**`Backlog`** - `run_next` of the execution adapter over the registry, which is one JSON file. `reg` is the
file: the item states, the checkpoint record of each item (`phase`, worker, owner process, the gates that
have passed), the broker's current state and history, the dispatcher's choice. A step is one hold of the
file's lock. `GTXBrokerRegistry` reads everything in one hold and writes everything back in a later one;
its updates are a `Load` and a `Save` (`snap` is what was read), three such rounds for one attempt that
changes the worker. `held` is the list of items the adapter passes along from its claim to its outcome, and
`Transition` writes that list, as `transition_item_state` does. `job` holds the other locals; `mode` tells
the four paths apart (a claimed item, a resumed review, a resumed final verification, the handler of an
unexpected exception) and `stage` what is being recorded. `Kill` ends a runner between two steps and gives
its successor another process id (`life`). `Raise` is a call that raises; `Fail` is where the exception
surfaces, which depends on the path. `approved` is history: what has passed a final verification. The
reads of the two exception handlers are taken together; the ledger, the text of evidence and the timestamps
are left out.

**`Pool`** - the second shift's models and the two workflows of `dispatch.py` that do not ask the broker.
`reg` is the registry file (of each model its status, whether its credit is exhausted, its failures; the
recovery counters; the P40's failures by goal; the selected model), `ledger` the substantive failures the
ledger file holds, counted. A step is one hold of the state lock; `Update` is `update_state`, which writes
the registry and then the ledger and may be killed in between. `Observe` is `check_pool_recovery`.
`attempt_coding_task` is `Begin`, `Route`, `Check` and `RecordAttempt`, four holds, with the two places
where it raises; `Route` writes back the models its caller has read at `Begin`, as `route_coding_request`
does. Only three values of a recovery counter are told apart, none, one and more. `SetFailureCount` and
`ClearLedger` are `set_substantive_failure_count` and `clear_all`, which write one of the files only; nothing in
the repository but tests calls them, so they are steps of an operator. `erased` and `given` remember, for the
properties only, what they took and gave. The broker's registry, which loads the whole file and
later saves all of it, is in `Backlog`.

**`Profile`** - the execution step of a task for the P40: `profile()` and `ensure_profile()` with
the lock, the fast path, the switch, its timeout and the verification, and around them the daemon's three
tries (`round`: the boundary, the remediation, the boundary again). `switches` are the running wrappers, each
a process that stops the service and starts it with another model, or fails: one that cannot stop it leaves the
old model, and `scripts/switch-p40-model` goes back to the coding model when vision does not start. One
whose daemon timed out or was killed goes on with `by = Nobody`. `kind` is the handler of the task and
`profile` its profile: the first goes by the task's kind or its being a review, the second by its worker, so
slow-coder runs the coding handler without a lease, and a review that names a P40 worker runs with one. `last` is each handler's `last_result` as far as it matters, whether there is one and whether it is of
the run at hand; `closed` is what `Record` passes to the store. Which results a handler reaches with a
`last_result` and which without (`Ends`) is read off `handlers.py`.

**`Staging`** - `stage_event` and the storage calls under it, one step per effect on the files: image in place
but not whole, whole, metadata, rename, mark, and the removal file by file. A directory is its images, its
status and whether an update left its temporary file. `input_path` (`First`) is the first file by name,
as the code has it. Kills and failing operations may come at every step; `cut` remembers, for the
properties only, whose removal was cut short.

What `Scheduler`, `Dispatch` and `Daemon` abstract: payloads, names, priorities and timestamps; the handler's work (a freely
chosen result); which eligible task the loop picks (any; `Queue` decides it); why a worker is unavailable (it may be at any
time). A refused claim, a lost race and an invalid manifest are choices.

## 3. Runs

| Run | Instance | Question |
|---|---|---|
| `dispatch_store` | 2 killable dispatchers, 1 maintainer, 2 P40 tasks, cancellation, planning mode | `ResourceExclusion`, `ReadyMeansFree` and types under every interleaving, also when tasks are retried or requeued under a running handler |
| `dispatch_daemon` | 1 dispatcher, 1 reviewer, 3 tasks, fairness | the split methods never act on a stale reading, no attempt stays open, `STATE_TRANSITIONS` is followed, claims resolve, planning mode drains the P40 |
| `daemon_recovery` | 2 staged and reviewed tasks, 2 kills anywhere but in the claim's move, each of which may tear the file being written, fairness | after recovery the two stores agree: results final, waiting tasks claimable, nothing in limbo; only a torn file stops recovery or leaves staged work in flight |
| `daemon_faults` | 1 ingress task, 1 coding task, kills, torn files, failing calls, cancellation, retention, reviews | results stay durable, a handler owns its input |
| `daemon_claim_crash` * | 1 input, kills inside the claim | the input can never be claimed again |
| `queue` | 1 image, 1 batch and 1 immediate coding task, 1 review that names p40-coding, 2 hours, all controls, one worker that comes and goes, fairness | what runs on the P40 was claimed as P40 work or is a review that names its worker; every queued task gets its turn; planning mode holds back P40 work only; the loop does not spin |
| `profile` | 2 daemons on one machine, one for images and for reviews on the P40, one for coding tasks on the P40 and on slow-coder; a service and wrappers that fail; 1 abandoned switch; fairness | handlers run under their profile, verdicts are closed with their own results, every execution ends |
| `profile_stale` * | the same, no abandoned switch | an attempt to be retried is closed with an earlier task's result |
| `staging` | 2 events, 2 processes, 2 kills, 2 failing operations | what is published is complete; what was said to be saved stays saved |
| `pool` | 2 original models and the 2 recovery members, 1 goal, 1 caller, a count set by hand, a cleared ledger, 1 kill | an observation leaves nothing to observe, the two files differ by what kills and operators took, the P40 is left for recorded failures only |
| `backlog` | 1 runner, 2 items (one the P40's, one Codex's), 1 kill or raised call, fairness | a completion rests on a verification, and its evidence is in the file before it; the queue keeps its order; every attempt ends; a preserved candidate is resolved |
| `backlog_pair` * | 2 runners, 2 items | an outcome undoes another runner's claim |

`*` marks runs that are expected to find a violation; they correspond to the findings below.

**Bounds.** Two tasks and two dispatchers are what a violation of exclusion or readiness takes (one
holder and one that starts); the theorems remove the bound. Three tasks in `dispatch_daemon` add a
worker with a resource of its own, so that a conflict and its absence both occur. In `Daemon`,
`MaxCrashes` = 2 gives a kill of a dispatch and a kill of the recovery that follows it, which is the
deepest distinct situation: recovery writes nothing but the two stores, so a third kill meets states the
second already met. Two staged tasks exercise recovery of one input while the other waits. All other
variables are finite by themselves. Deadlock checking is on everywhere (the daemon's `Sleep` is its
polling interval). The dispatchers of
`dispatch_store` are symmetric (it checks invariants only); no other run uses symmetry. In `queue` two
hours stand for the night and the day, the only distinction `get_current_window` makes; three of its
tasks are one per place in the order (image window, batch window, any time), and the fourth is a review that the
claim and the start treat differently. In `backlog` two items are one
that is worked on and one that waits behind it, with the two first workers the classifier knows. `MaxMishaps`
= 1 bounds kills and raised calls together, at any of 24 steps. `MaxP40Attempts` is 1 instead of the 3 of
`escalation_policy.py:86`: the number is only compared with the limit, and 1 reaches both sides. Kills are
everywhere but at `settled`, between an item's outcome and its last checkpoint: after a kill there a
completed item may still be in a pending phase, is verified again and may go back to the queue, which
`FollowsQueue` forbids (the other properties hold with that kill too).
Calls raise where the adapter leaves the registry: the broker while it routes, the dispatcher, the
worker and the gates. `ReviewTriggers` are no finding and a repeated error, the pair that decides whether
the limit applies.

In `pool`, two originals (the P40's own entry, which nothing changes, and one that is judged and corrected) and
the two recovery members let the usable members cross two and four in both directions, with either recovery member
called and sent back. `Threshold` is 2 and not the 3 of `dispatch.py:116` and `state.py:24`: it is only
compared with counts, and 2 leaves a failure before the last. `MaxFailures` 2 reaches it for the P40; `MaxReports` 1
and a count of 1 set by hand reach it for a model together, so that the quarantine, too, comes with a count the
ledger does not have. One kill separates the files by the one failure the property allows; a recovery counter that has passed
two is not distinguished any more (2 million states). In `profile` two daemons with different profiles are what it takes to
switch under one another, and a daemon with two kinds of task is what it takes for a handler to keep a
result across another task of its process, one with a profile and one without among them; one abandoned switch is either a timeout or a kill. In
`staging` two kills and two failing operations reach a failure in the repair of an earlier kill; two events are two ids,
which share nothing but the lock, so more would add no situation.

**Fairness.** `Dispatch`: weak fairness of `Advance(d)`, i.e. a dispatcher in the middle of a method goes
on (SQLite calls have a busy timeout; handlers run their commands and requests under a timeout, all but the `git`
commands of the coding and review handlers, `handlers.py:513-541` and `599-610`, which are taken to return). `Daemon`: weak fairness of `Advance`
and of `Recover` (the service manager restarts the daemon; `__init__` recovers before `run` polls).
`Queue`: weak fairness
of the loop and of the clock; that the controls settle, that a worker stays available and that nights
are long enough for the loop to run dry (`LongNights`) are hypotheses inside the properties that need them.
`Backlog`: weak fairness of each runner (a service that calls `run_next` again) and strong fairness
of `GateDecides`: a gate that is asked again and again is not unavailable each time. Without it a
candidate may wait for ever, as it should.
`Profile`: weak fairness of a daemon's steps and of the wrappers (the calls the daemon makes there, and the
waits of the wrapper itself, are bounded, but for the same `git` commands), and strong fairness of `Acquire`: `flock` is given to who waits, if
it is released again and again. That a call times out or a process is killed is never assumed.
`Pool` and `Staging` state no liveness.
Nothing is assumed of clients, reviewers, maintainers, the ingress, or of the loop finding work.

## 4. Findings

1. **A kill inside the claim strands the input** (`daemon_claim_crash`, `daemon.py:143`): the directory
   is in `processing`, the status still `accepted`, and recovery takes that for "not claimed".
2. **A transition writes the whole list** (`backlog_pair`, `backlog_runner.py:134`): the item another runner
   claimed meanwhile is queued again.
3. **A retried attempt is closed with another task's result** (`profile_stale`, `daemon.py:473`): when the
   profile cannot be loaded the handler never runs, and what it kept from an earlier task is stored.

`PROJECT.json` quotes the line of the repository each one contradicts.

Seen while modelling, without a run of their own. Where a module models the code in question, it models
this behaviour too, and the passing runs' instances or properties are chosen around it.

Scheduler and inputs:
- A cancellation is overwritten by `requeue_claimed_to_retry_wait` (`scheduler.py:1456`).
- Tasks without an input are not visited by recovery (`daemon.py:113`); a torn `metadata.json` of a task stops
  every restart (`storage.py:261`, `daemon.py:120`), and `RecoveryCompletes` says that nothing else does; a rejected manifest leaves its input in `incoming` (`daemon.py:324`).
  A task cancelled while recovery is about to requeue it leaves its input in `processing`.
- Retention removes an input that is under review (`storage.py:478`); approving or rejecting it then
  returns False for ever. The review writes its decision to the metadata before the transition
  (`review.py:58`) and leaves `scheduler_outcome` as it was, so that an approved result stays
  `awaiting_review` there, and of two reviewers one may leave the text and the other the state.
- The retired ingress marks images `queued`, which the claim does not take (`telegram_ingress.py:142`).
- The name of a reviewer is not checked (`scheduler.py:448`, `481`): a review with `review_worker` "p40-coding" runs
  on the P40, contrary to `scheduler.py:1034-1035` ("they never fall back to the P40 or GTX"; `review_worker` is asked for
  there, not fallen back to). It is no P40 work for the claim (`scheduler.py:313`), so under planning mode it is claimed
  and refused at the start each time. `BoundaryKept` and `PlanningLeavesOthers` name the case.
- `can_admit_batch_task`, which nothing calls, knows the clock only: the night control and planning mode let
  `get_pending_tasks` offer batch work it does not admit (`policies.py:164`, `scheduler.py:1144-1158`).
- Queries and reviews of other kinds are routed to workers whose capabilities do not match their kind, and
  their start is refused every time (`scheduler.py:841`; `policies.py:4` lists them as work to be done).
- In the batch window P40 batch work precedes other immediate work (`scheduler.py:1186`; `policies.py:7`
  has it the other way round). `get_control_state` reads its parts in separate statements
  (`scheduler.py:276`).

Profile lease:
- After a timeout or a kill the wrapper goes on and may switch under the next holder of the lease, which
  is why `RunsUnderProfile` excludes abandoned switches. `scripts/switch-p40-model` takes no lease at all.
- `profile()` never restores a default profile, as `docs/scheduler-priority3.md:27-28` says it does.
- A failure after the remediation is retried, an exception there is final.

Telegram staging:
- A removal cut short may leave the temporary metadata file, which a replay then takes for the image and
  answers as saved; a kill in the middle of the removal may leave a directory that makes
  every replay fail. Hence `cut`.
- The task id has eight hexadecimal digits: two events that collide are one event (`DistinctIds`).
- The same content under another extension after a kill may leave an incomplete image that is first by
  name.

Second shift:
- The broker raises while routing: the item runs on the fallback worker without a broker state, and
  recording the review of its candidate raises for ever, while pending items come first
  (`backlog_execution_adapter.py:739`, `controller.py:223`). `CandidatesResolve` is therefore stated of routed
  items.
- A resumed review leaves its pending phase before the item is settled; a kill in between leaves a verified
  candidate that nobody takes up (`backlog_execution_adapter.py:765`).
- A worktree changed by the final verification stays a candidate, and the next verification may accept it
  without new tests (`backlog_execution_adapter.py:1022`; `docs/review-routing-policy.md:16-17`).
- A second runner recovers the item of a living one whenever its record is not in the phase `executing`
  (`backlog_execution_adapter.py:609`).
- `route_coding_request` writes back the models its caller read earlier, so a quarantine or a credit
  state in between is lost (`dispatch.py:295`).
- The recovery of the pool reactivates a quarantined Copilot without a reviewer. A drop calls
  Copilot, but the first rise sends back Codex, called or not: after one of each Copilot stays. Setting a credit to available leaves the evidence of
  exhaustion.
- Two callers of `attempt_coding_task` read each other's selected model (`dispatch.py:704`), so
  `EscalationEarned` is of one caller only.

## 5. What is proved

All proofs are for arbitrary finite or infinite sets of tasks, workers, resources, processes and inputs,
from the assumptions stated with the constants (`SchedulerAssumption`, `DispatchAssumption`,
`DaemonAssumption`, `BacklogAssumption`, `PoolAssumption`, `ProfileAssumption`, `StagingAssumption`, ...: the sets are disjoint where they must be, workers map to
resources, items are numbers).

- **The store alone.** `StoreTypeCorrect`; `StoreExclusion`; `StoreReadiness`. Exclusion is not inductive by
  itself: `start_task` counts attempts, so the invariant must say that the open attempt of a running task is
  among its attempts. `ExclusionInv` = types, `AttemptsRecorded`, `ResourceExclusion`. Readiness is
  inductive given types: `claim_task` refuses P40 tasks under planning mode, and a task that starts on
  the P40 is refused again by `start_task`.
- **Dispatch.** `DispatchTypeCorrect`; `DispatchImplementsStore` (each step is one transaction or none), from
  which `DispatchExclusion` and `DispatchReadiness` follow for any number of dispatchers, kills included.
- **An uncontended daemon.** Under `Uncontended` (one dispatcher, one reviewer, no maintenance, no
  cancellation) `SoloNoStaleDecision`, `SoloExecutionRecorded` and `SoloFollowsLifecycle`. The invariant
  `SoloInv` says, for each pending statement, which state it will find: `NoStaleDecision` only bounds the
  pending write by the transition table, and a dispatcher and a reviewer can be shown not to disturb
  each other only when the pairs are named (`PendingUpdates`). The assumption is needed: a
  cancellation between the reading and the UPDATE of `requeue_claimed_to_retry_wait` is overwritten.
  On top of it `AttemptInv` follows the open attempt: the method that suspends a task closes it before its
  UPDATE, the one that completes a task after, so a settled task may still have one. That gives
  `SoloWaitingHasNoAttempt` with kills, and `SoloNoOrphanAttempt` without: a kill between the two
  statements of `complete_task` leaves a finished task's attempt open.
- **Daemon, one store at a time.** `CallsAreWellFormed` with the inductive invariant `CallInv` (a running or
  following scheduler method has a task and a state to write, also in recovery), `DaemonImplementsStore`,
  `DaemonExclusion`, `DaemonTypeCorrect`.
- **Daemon, the two stores.** `ResultsAreDurable`, `HandlersOwnInputs` and `RecordedResultsStay` hold with every
  kill, torn file, failing call, cancellation, removal, review and ingress the model has. None is inductive:
  a result is written to the input before the state follows, several steps and perhaps a
  recovery later. `DaemonInvariant` = `WellFormed` (types, what each step of a method knows of its
  `goal`, `then` and `todo`: `MethodInv`), `StateInv` (the state the task at hand is in at each step),
  `InputOK` of every input (a recorded result belongs to a task that runs or is settled, and its input is not
  in `incoming`; what the ingress or a reviewer will write back is no result but the one that is there) and `HandInv`
  (where the input at hand is and what is recorded with it).
  `ResultsAreFinal` adds that there is no ingress, which may mark an input that has a result;
  `DaemonFollowsLifecycle` that nobody cancels: the UPDATEs of the methods assume the state they
  read. TLC finds both properties violated without these hypotheses.
- **Daemon, after recovery.** `WaitingTasksAreClaimable` and `NoTaskAbandoned` (no staged task is
  claimed or running when the daemon polls) hold with cancellations, torn files and kills, under `Undisturbed`: no ingress, no failing call
  (the task stays as it is until the next restart) and no kill between the claim's two writes (finding 1).
  `NoTaskInLimbo` also needs that nobody cancels a staged task. The invariant
  `ReconciledInv` says of every input what a kill may leave (`Coherent`: enough for recovery to tell from metadata
  and state where the input is), that either the daemon or its recovery has still to see it (`Pending`) or the
  two stores agree on it (`Settled`), and of the input at hand what the rest of the methods relies on
  (`CarryInv`). When the daemon polls nothing is pending. Each hypothesis was dropped in turn with TLC: without
  it the property is violated, except that the kill in the claim is not known to harm `NothingInLimbo`.
- **Policy and queue.** `RoutingAgrees`, `ReviewsGoWhereNamed` and `AdmissionAgrees` hold of every
  combination of columns (names of workers that no worker has included), available workers, controls, hours and
  image counts; they compare decisions the code takes in two places, and say where these differ: a review that
  names a P40 worker, and batch work under the night control or planning mode. `QueueTypeCorrect` and `QueueBoundary`
  are the loop's invariants; the second rests on the first of these facts at the one step that enters a P40
  worker.

- **Backlog.** `BacklogTypeCorrect` and `CompletionsAreVerified`, for any number of runners, items, kills and
  raised calls. Two runners overwrite each other's updates (finding 2 shows how), so what the
  file says of completed items depends on every copy of it a runner may still write back. The inductive
  invariant adds `Verified` to the types: the file, every `snap` and every `held` list only
  completed items that are in `approved`, and a runner whose locals say that the final verification passed
  works on such an item. `approved` only grows, which makes stale copies harmless for this property.
- **Backlog with one runner.** Everything else about the backlog is false of two runners (`backlog_pair` violates
  `TransitionsOneItem`), so it is proved under `OneRunner`, for any number of items, kills and raised
  calls, in layers, each of which uses the ones before:
  `Copies` (the list or registry a runner will write back is the file) gives `OneRunnerMovesOneItem`;
  `Evidence` (a record's phase, and a verdict in the locals, are backed by the gates the record has passed; `Fits`
  says which verdicts a runner can have at which step) gives `CompletionsHaveEvidence`;
  `Queue` (at most one item is in progress, none while a candidate waits, and at each step which item that
  is: `Place`) gives `BacklogFollowsQueue`, the step-by-step refinement of `BacklogLifecycle`; `Owners` (a name in a record
  never runs ahead of its runner's kills) and the steps by which a runner leaves an item
  give `LiveLookingItemsAreLive`. `BacklogFollowsQueue` needs `RecordsSettled`, that neither a kill nor an
  error comes between an item's outcome and its last checkpoint: after one, an item that is completed
  or queued has a candidate. `LiveLookingItemsAreLive` needs that the write of an outcome does not raise: the
  exception handler that fails there leaves an item in progress under its own living name. It takes
  two mishaps, so it is outside the bounds of the run `backlog`; TLC finds it with `MaxMishaps` = 2. In the same way it
  finds `FollowsQueue` violated with only a kill or only an error at `settled`.

- **Pool.** `PoolTypeCorrect` and `FilesAgree`, for any number of callers, counts set by hand and cleared ledgers: that the registry is never behind the ledger
  needs `SnapshotAccounted`, that a caller's copy of the models was counted in the ledger too, because
  `Route` writes it back. `ObservationsSettle` is not about reachable states but about every well-typed
  registry: calling a member adds at most one usable model and sending one back takes at most one, while a
  crossing needs two (lemmas on the cardinality of `Usable`). `EscalationsAreEarned` is for one caller,
  with `SelectionEarned` for the hold between the choice and its reading back; it assumes so
  explicitly, since it is false of two.
- **Profile.** `ProfileTypeCorrect`, `HandlersRunUnderProfile` and `VerdictsAreOwn`, for any number of daemons.
  `LeaseInv` = types (a wrapper somebody waits for is for that daemon's profile), `LeaseHeld` (a daemon between the lock and the end of its handler holds the lease),
  `StraysCounted` (a wrapper with nobody waiting for it was counted) and `RunLoaded`: of the wrappers that run
  each belongs to the one holder, who is waiting for it, so none runs beside a handler. `ResultInv` adds
  what `last` says at `record`.
- **Staging.** `StagingTypeCorrect`, and under `DistinctIds` `SavedStaysSaved`, for any number of processes, events,
  kills and failures. `StageInv` = types, `Assembled` (what is under `tmp` at each step of its assembly),
  `Complete` and `Marked`. `SaveInv` adds `Pure` (a directory in `incoming` has only whole images of its own id) and
  `Kept` (nobody marks or removes what its sender was told is saved); a replay in the middle of a repair is the
  case that needs it.

Only model-checked are the liveness properties, which are out of the prover's reach (`ClaimsResolve`, `PlanningDrains`,
`RecoveryCompletes`, `StagedWorkResolves`, `QueuedTasksRun`, `PlanningLeavesOthers`, `LoopRests`, `AttemptsEnd`,
`CandidatesResolve`, `ExecutionsEnd`). Every invariant and action property of a passing run is stated by a theorem,
under the hypotheses above.

## 6. Plan

In this order, the most important behaviour first; each module comes with its run and theorems.

1. *Done.* `Scheduler`, `Dispatch`, `Storage`, `Daemon`, `Policy`, `Queue`, `Escalation`, `Backlog`, `Pool`,
   `Profile`, `Staging` and their proofs.
2. *Done.* Proofs of the daemon's invariants over both stores and of a backlog with one runner. Open: `NoTaskInLimbo`
   with kills in the claim, what a kill inside `complete_task` leaves of `SoloNoOrphanAttempt`, and
   which part of `FollowsQueue` survives a kill at `settled`.
3. Several reviews of one input in `Daemon`: what the metadata then says of the decision. It decides
   nothing but what a reader is shown, which is why it comes late.
4. `Epoch` - attach, barrier and review trigger against running daemons, once something calls them.

## 7. Not modelled

- Handlers' commands, HTTP and Telegram transport, image arithmetic, readers, formatting: no state
  of their own, or external. A handler is its result.
- Manifest and path validation: stateless; the verdict is a choice.
- SQLite's own durability and locking: a statement or transaction is atomic.
- The host's crash (as opposed to the process's): renames are taken to be durable in order.
- The epoch manager: three check-then-update methods of one table without a caller outside their tests, so
  there is no order of calls to be faithful to. As they stand a task can be attached, or retried, after
  its epoch's review was triggered.
- The lease's wrapper and the service are modelled from how the daemon uses them; what a profile file says is
  left out.
- Of the second shift, the helpers that return a changed copy of a registry and save nothing (`update_model`,
  `decrement_substantive_failure`, `set_failure_count`, `reset_failure_counts`, `quarantine_model`,
  `record_last_successful_artifact`), provider transitions (which only add to the ledger), artifacts and
  listings. Nothing under `src/` but tests saves a registry such a helper has changed; the broker's registry,
  which does save, writes what it loaded with its own section changed (`Backlog`). It could undo in `Pool` what
  others wrote in between, as `Backlog` shows; `FailuresAccounted` and `EscalationEarned` are stated
  without it.

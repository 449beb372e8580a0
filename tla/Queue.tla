-------------------------------- MODULE Queue ---------------------------------
(***************************************************************************)
(* The polling loop of gtx_broker/daemon.py against the queue: which task  *)
(* it takes next while the clock runs, operators change the controls and   *)
(* cancel tasks, workers come and go, and tasks fail and are retried.      *)
(*                                                                         *)
(* get_pending_tasks reads the controls, the pending images and the rows   *)
(* in three statements, and claim_task comes later still: each is a step   *)
(* here.  The methods that follow a claim are one step each; Dispatch      *)
(* interleaves their statements.                                           *)
(***************************************************************************)
EXTENDS Policy, FiniteSets

CONSTANTS
  Tasks,         \* task ids
  NoTask,
  Attr,          \* task -> the columns the policy reads
  Hours,         \* the hours of the day the clock shows, in order of time
  Cancellable,   \* tasks an operator may cancel
  Configured,    \* workers available at the start
  Flaky,         \* workers whose availability changes
  Controls,      \* controls that operators change
  Results        \* states a handler's result may lead to

ASSUME QueueAssumption ==
  /\ NoTask \notin Tasks
  /\ Attr \in [Tasks -> TaskRecord]
  /\ Hours \subseteq 0..23
  /\ 0 \in Hours
  /\ Cancellable \subseteq Tasks
  /\ Configured \subseteq Profiles
  /\ Flaky \subseteq Profiles
  /\ Controls \subseteq {"schedule", "planning", "mode"}
  /\ Results \subseteq {"succeeded", "failed_terminal", "retry_wait", "awaiting_review"}

VARIABLES
  state,                     \* tasks.state, "absent" before the insert
  schedule, planning, mode,  \* scheduler_controls
  available,                 \* workers whose availability is "available"
  hour,                      \* London time
  at,                        \* the daemon's next statement
  task,                      \* the task it got from get_next_task
  seen,                      \* the planning and mode controls get_pending_tasks read
  window,                    \* the window it works in, kept while nothing is offered
  worker                     \* the worker of the task it runs

storeVars == <<state, schedule, planning, mode, available, hour>>
loopVars == <<at, task, seen, window, worker>>
vars == <<storeVars, loopVars>>

States == {"absent", "queued", "claimed", "running", "succeeded",
           "failed_terminal", "retry_wait", "awaiting_review", "cancelled"}
PCs == {"poll", "count", "pick", "claim", "dispatch", "running", "promote", "asleep"}

SetState(t, s) ==
  /\ state' = [state EXCEPT ![t] = s]
  /\ UNCHANGED <<schedule, planning, mode, available, hour>>

Goto(pc) == at' = pc /\ UNCHANGED <<task, seen, window, worker>>

\* What the loop starts a turn with.
Unread == [planning |-> "off", mode |-> "day"]

\* Back to the top of the loop.
Continue ==
  /\ at' = "poll"
  /\ task' = NoTask
  /\ worker' = "none"
  /\ seen' = Unread
  /\ window' = "restricted"

-----------------------------------------------------------------------------
(* get_pending_tasks. *)

ReadControls ==
  /\ at = "poll"
  /\ IF schedule = "on"
       THEN at' = "count" /\ seen' = [planning |-> planning, mode |-> mode]
       ELSE at' = "promote" /\ UNCHANGED seen
  /\ UNCHANGED <<task, window, worker, storeVars>>

PendingVisionRetrying ==   \* mutant: images that wait for a retry keep batches back
  {t \in Tasks : CountsAsVision(Attr[t]) /\ state[t] \in {"queued", "claimed", "running", "retry_wait"}}

PendingVision ==
  {t \in Tasks : CountsAsVision(Attr[t]) /\ state[t] \in {"queued", "claimed", "running"}}

CountVisionPlanned ==   \* mutant: images count although planning holds the P40
  /\ at = "count"
  /\ at' = "pick"
  /\ window' = CurrentWindow(seen.mode, hour, Cardinality(PendingVision))
  /\ UNCHANGED <<task, seen, worker, storeVars>>

CountVision ==
  /\ at = "count"
  /\ at' = "pick"
  /\ window' = OpenWindow(seen.planning, seen.mode, hour, Cardinality(PendingVision))
  /\ UNCHANGED <<task, seen, worker, storeVars>>

OfferedUnfiltered ==   \* mutant: P40 tasks are offered under planning mode
  {t \in Tasks : state[t] = "queued" /\ Eligible(Attr[t], window)}

Offered ==
  {t \in Tasks : /\ state[t] = "queued"
                 /\ Eligible(Attr[t], window)
                 /\ ~(seen.planning = "on" /\ RequiresP40(Attr[t]))}

PickUnbound(t) ==   \* mutant: the task is not kept
  /\ at = "pick"
  /\ t \in Offered
  /\ Goto("claim")
  /\ UNCHANGED storeVars

Pick(t) ==
  /\ at = "pick"
  /\ t \in Offered
  /\ \A u \in Offered : ~Outranks(Attr[u], Attr[t], window)
  /\ at' = "claim"
  /\ task' = t
  /\ seen' = Unread /\ window' = "restricted"
  /\ UNCHANGED <<worker, storeVars>>

NothingOffered ==
  /\ at = "pick"
  /\ Offered = {}
  /\ at' = "promote"
  /\ seen' = Unread
  /\ UNCHANGED <<task, window, worker, storeVars>>

-----------------------------------------------------------------------------
(* _dispatch_task. *)

ClaimAllowed(t) ==
  /\ state[t] = "queued"
  /\ schedule = "on"
  /\ ~(planning = "on" /\ RequiresP40(Attr[t]))

\* A claim that is refused starts the loop again without a pause.
Claim ==
  /\ at = "claim"
  /\ IF ClaimAllowed(task)
       THEN SetState(task, "claimed") /\ Goto("dispatch")
       ELSE UNCHANGED storeVars /\ Continue

\* start_task refuses the P40 under planning mode and a kind of task that the
\* worker's capabilities do not name.
StartAllowed(t, w) ==
  /\ w # "none"
  /\ ~(planning = "on" /\ w \in P40Profiles)
  /\ CanRun(w, Attr[t].kind)

Start(w) ==
  /\ at = "dispatch"
  /\ w = SelectWorker(Attr[task], available)
  /\ StartAllowed(task, w)
  /\ SetState(task, "running")
  /\ at' = "running"
  /\ worker' = w
  /\ UNCHANGED <<task, seen, window>>

\* No worker, or start_task refuses it: requeue_claimed_to_retry_wait.
StartRefused ==
  /\ at = "dispatch"
  /\ ~StartAllowed(task, SelectWorker(Attr[task], available))
  /\ SetState(task, "retry_wait")
  /\ Continue

Finish(s) ==
  /\ at = "running"
  /\ SetState(task, s)
  /\ Continue

-----------------------------------------------------------------------------
(* The rest of the loop: promote one retry, then sleep. *)

Retrying == {t \in Tasks : state[t] = "retry_wait"}

\* get_retry_wait_task and requeue_retry_wait: every caller in the daemon lets
\* the delay end at once.
Promote(t) ==
  /\ at = "promote"
  /\ t \in Retrying
  /\ \A u \in Retrying : Attr[t].priority >= Attr[u].priority
  /\ SetState(t, "queued")
  /\ Goto("asleep")

NothingToPromote ==
  /\ at = "promote"
  /\ Retrying = {}
  /\ Goto("asleep")
  /\ UNCHANGED storeVars

Wake == at = "asleep" /\ Continue /\ UNCHANGED storeVars

-----------------------------------------------------------------------------
(* The environment. *)

AddTask(t) == state[t] = "absent" /\ SetState(t, "queued") /\ UNCHANGED loopVars

Cancel(t) ==
  /\ t \in Cancellable
  /\ state[t] \in {"queued", "claimed"}
  /\ at \in {"dispatch", "running"} => task # t
  /\ SetState(t, "cancelled")
  /\ UNCHANGED loopVars

SetControl ==
  /\ \/ "schedule" \in Controls /\ schedule' \in {"on", "off"} /\ UNCHANGED <<planning, mode>>
     \/ "planning" \in Controls /\ planning' \in {"on", "off"} /\ UNCHANGED <<schedule, mode>>
     \/ "mode" \in Controls /\ mode' \in {"day", "night"} /\ UNCHANGED <<schedule, planning>>
  /\ UNCHANGED <<state, available, hour, loopVars>>

\* WorkerRegistry.update_status
UpdateStatus(w) ==
  /\ w \in Flaky
  /\ available' = IF w \in available THEN available \ {w} ELSE available \cup {w}
  /\ UNCHANGED <<state, schedule, planning, mode, hour, loopVars>>

\* The next hour in Hours, or midnight.
NextHour(h) ==
  \/ h > hour /\ \A g \in Hours : g > hour => h <= g
  \/ h = 0 /\ \A g \in Hours : g <= hour

Tick ==
  /\ hour' \in {h \in Hours : NextHour(h)}
  /\ UNCHANGED <<state, schedule, planning, mode, available, loopVars>>

-----------------------------------------------------------------------------
Init ==
  /\ state = [t \in Tasks |-> "absent"]
  /\ schedule = "on" /\ planning = "off" /\ mode = "day"
  /\ available = Configured
  /\ hour = 0
  /\ at = "poll"
  /\ task = NoTask
  /\ seen = Unread
  /\ window = "restricted"
  /\ worker = "none"

Loop ==
  \/ ReadControls \/ CountVision \/ NothingOffered
  \/ \E t \in Tasks : Pick(t) \/ Promote(t)
  \/ Claim \/ StartRefused
  \/ \E w \in Profiles : Start(w)
  \/ \E s \in Results : Finish(s)
  \/ NothingToPromote \/ Wake

Environment ==
  \/ \E t \in Tasks : AddTask(t) \/ Cancel(t)
  \/ SetControl
  \/ \E w \in Flaky : UpdateStatus(w)

Next == Loop \/ Environment \/ Tick

Spec == Init /\ [][Next]_vars

\* The loop goes on and so does time.
FairSpec == Spec /\ WF_vars(Loop) /\ WF_vars(Tick)

-----------------------------------------------------------------------------
(* Properties. *)

QueueTypeOK ==
  /\ state \in [Tasks -> States]
  /\ schedule \in {"on", "off"} /\ planning \in {"on", "off"} /\ mode \in {"day", "night"}
  /\ available \subseteq Profiles
  /\ hour \in Hours
  /\ at \in PCs
  /\ task \in Tasks \cup {NoTask}
  /\ at \in {"claim", "dispatch", "running"} => task \in Tasks
  /\ seen \in [planning : {"on", "off"}, mode : {"day", "night"}]
  /\ window \in Windows
  /\ worker \in Profiles \cup {"none"}

\* The claim decides by the task's columns (_task_requires_p40), the dispatch
\* later by its worker (select_worker_for_task).  What runs on the P40 was held
\* to be P40 work when it was claimed, or is a review that names the profile
\* itself; a review runs on the worker it names, or on a reviewer when it names
\* none.
BoundaryKept ==
  at = "running" =>
    /\ worker \in P40Profiles =>
         RequiresP40(Attr[task]) \/ (IsReview(Attr[task]) /\ Attr[task].reviewer = worker)
    /\ IsReview(Attr[task]) => worker \in ReviewProfiles(Attr[task])

\* A night is long enough: again and again the loop falls asleep in a night
\* window.
LongNights == []<>(at = "asleep" /\ window \in {"image", "batch"})

Settled(s, p) == <>[](schedule = s /\ planning = p)

\* A task in retry_wait stays there while another of no lower priority is
\* retried again and again: the promotion takes that one first.
StarvedBy(t, u) ==
  /\ Attr[u].priority >= Attr[t].priority
  /\ <>[](state[t] = "retry_wait")
  /\ []<>(state[u] = "retry_wait")

EventuallyRuns(t) ==
  (<>[](SelectWorker(Attr[t], available) # "none"))
    => \/ state[t] = "queued" ~> state[t] \notin {"queued", "claimed", "retry_wait"}
       \/ \E u \in Tasks \ {t} : StarvedBy(t, u)

\* Every task gets its turn: dispatching on and the P40 free of the operator,
\* a queued task whose worker stays available is run, whichever windows,
\* images, refused claims and retries come in between, unless it is to be
\* retried itself and a retry of no lower priority keeps coming back.
QueuedTasksRun ==
  Settled("on", "off") /\ LongNights => \A t \in Tasks : EventuallyRuns(t)

\* Planning mode keeps these waiting: P40 work at the claim, and at the start a
\* review that names a P40 profile.
HeldBack(a) == RequiresP40(a) \/ a.reviewer \in P40Profiles

\* Planning mode holds back work for the P40 only: waiting images must not keep
\* the batch window closed for tasks that run elsewhere (scheduler.py:1144-1148).
PlanningLeavesOthers ==
  Settled("on", "on") /\ LongNights
    => \A t \in Tasks : ~HeldBack(Attr[t]) => EventuallyRuns(t)

\* The loop never spins: once the controls settle it sleeps again and again,
\* although a refused claim starts it over without a pause.
LoopRests ==
  <>[][UNCHANGED <<schedule, planning>>]_vars => []<>(at = "asleep")
=============================================================================

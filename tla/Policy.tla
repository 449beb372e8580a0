-------------------------------- MODULE Policy --------------------------------
(***************************************************************************)
(* The dispatch policy as pure definitions: which window is open           *)
(* (gtx_broker/scheduler/policies.py), which queued tasks a window offers  *)
(* and in which order (Scheduler.get_pending_tasks), and which worker runs *)
(* a task (Scheduler.select_worker_for_task, the table of workers.py).     *)
(***************************************************************************)
EXTENDS Naturals

\* A kind is any string: query also stands for general, the kinds in the second
\* row for those that only contain a capability's name or are contained in one.
Kinds == {"coding", "vision", "query", "conversation", "review", "other",
          "code", "code_review", "computer_vision", "maintenance"}
Modes == {"immediate", "batch", "vision", "maintenance"}
Schedules == {"immediate", "batch", "nightly"}
Windows == {"image", "batch", "restricted"}

\* DEFAULT_WORKERS, without the provider no task is routed to.
P40Profiles == {"p40-coding", "p40-vision"}
ReviewWorkers == {"codex-review", "air-review"}
Profiles == P40Profiles \cup ReviewWorkers \cup {"slow-coder", "gtx-chat"}

\* The names add_task accepts for a worker, which it does not check: any of the
\* table, and names that no worker has; "none" is NULL.
Names == Profiles \cup {"none", "unlisted"}

\* The columns of a task the policy reads.
TaskRecord ==
  [ kind : Kinds, mode : Modes, schedule : Schedules, reviewTag : BOOLEAN,
    reviewer : Names, profile : Names, priority : Nat ]

-----------------------------------------------------------------------------
(* Windows. *)

WindowStart == 0
WindowEnd == 6

\* get_current_window
PolicyWindow(hour, pendingVision) ==
  CASE hour >= WindowEnd \/ hour < WindowStart -> "restricted"
    [] hour < WindowEnd /\ hour >= WindowStart /\ pendingVision = 0 -> "batch"
    [] OTHER -> "image"

CountsAsVision(a) == a.mode = "vision" \/ a.kind = "vision"

\* The night override does not look at the clock.
CurrentWindow(mode, hour, pendingVision) ==
  CASE mode = "night" /\ pendingVision > 0 -> "image"
    [] mode = "night" /\ pendingVision = 0 -> "batch"
    [] OTHER -> PolicyWindow(hour, pendingVision)

\* The window get_pending_tasks works in: images wait while the operator owns
\* the P40, so they are not counted then.
OpenWindow(planning, mode, hour, pendingVision) ==
  CurrentWindow(mode, hour, IF planning = "on" THEN 0 ELSE pendingVision)

\* The WHERE clauses of get_pending_tasks.
Eligible(a, window) ==
  \/ a.mode = "immediate"
  \/ a.schedule = "immediate"
  \/ window = "image" /\ a.mode = "vision"
  \/ window = "batch" /\ "batch" \in {a.mode, a.schedule}

-----------------------------------------------------------------------------
(* Order. *)

Bit(b) == IF b THEN 1 ELSE 0

\* P40 kinds that are not reviews come before everything else ...
Preferred(a) == a.kind \in {"coding", "vision"} /\ ~a.reviewTag

\* ... but in the image window immediate work comes first.
Rank(a, window) ==
  LET late == Bit(a.mode # "immediate")
      other == Bit(~Preferred(a))
  IN  CASE window = "image" -> 2 * late + other
        [] window = "batch" -> 2 * other + late
        [] OTHER -> other

\* The ORDER BY clauses; tasks that tie are served in the order of creation.
Outranks(a, b, window) ==
  \/ Rank(a, window) < Rank(b, window)
  \/ Rank(a, window) = Rank(b, window) /\ a.priority > b.priority

-----------------------------------------------------------------------------
(* Routing. *)

IsReview(a) == a.reviewTag \/ a.reviewer # "none"

RunsSlow(a) == a.schedule = "nightly" \/ a.mode \in {"batch", "maintenance"}

\* _task_requires_p40
RequiresP40(a) ==
  /\ ~IsReview(a)
  /\ IF a.profile # "none"
       THEN a.profile \in P40Profiles
       ELSE \/ CountsAsVision(a)
            \/ a.kind = "coding" /\ ~RunsSlow(a)

ProfileOfBySchedule(a) ==   \* mutant: batch and maintenance mode forgotten
  CASE a.profile # "none" -> a.profile
    [] a.profile = "none" /\ a.kind = "vision" -> "p40-vision"
    [] a.profile = "none" /\ a.kind = "coding" ->
         IF a.schedule = "nightly" THEN "slow-coder" ELSE "p40-coding"
    [] a.profile = "none" /\ a.kind \in {"query", "conversation"} -> "gtx-chat"
    [] OTHER -> "none"

ProfileOf(a) ==
  CASE a.profile # "none" -> a.profile
    [] a.profile = "none" /\ a.kind = "vision" -> "p40-vision"
    [] a.profile = "none" /\ a.kind = "coding" ->
         IF RunsSlow(a) THEN "slow-coder" ELSE "p40-coding"
    [] a.profile = "none" /\ a.kind \in {"query", "conversation"} -> "gtx-chat"
    [] OTHER -> "none"

\* The worker a review asks for, whatever it is, and after codex-review, which
\* is the default, air-review.
ReviewProfiles(a) ==
  IF a.reviewer \in {"none", "codex-review"} THEN {"codex-review", "air-review"}
                                             ELSE {a.reviewer}

\* select_worker_for_task: "none" when no worker of the task is available.
SelectWorker(a, available) ==
  LET wanted == IF IsReview(a) THEN ReviewProfiles(a) ELSE {ProfileOf(a)}
      able == wanted \cap available
  IN  CASE able = {} -> "none"
        [] "codex-review" \in able -> "codex-review"
        [] OTHER -> CHOOSE w \in able : TRUE

\* The capability check of start_task: the kinds that contain one of the worker's
\* capabilities or are contained in one.
KindsOf(w) ==
  CASE w = "p40-coding" -> {"coding", "code", "code_review"}
    [] w = "slow-coder" -> {"coding", "code", "code_review", "maintenance"}
    [] w = "p40-vision" -> {"vision", "computer_vision"}
    [] w = "gtx-chat" -> {"conversation"}
    [] w \in ReviewWorkers -> {"review", "code_review"}
    [] OTHER -> {}

CanRun(w, kind) == kind \in KindsOf(w)

-----------------------------------------------------------------------------
(* Admission (DailyDispatchPolicy), not consulted by the scheduler. *)

CanAdmitBatch(hour, pendingVision) ==
  /\ PolicyWindow(hour, pendingVision) # "restricted"
  /\ ~(PolicyWindow(hour, pendingVision) = "image" /\ pendingVision > 0)
=============================================================================

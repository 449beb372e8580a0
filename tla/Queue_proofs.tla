---------------------------- MODULE Queue_proofs ------------------------------
(***************************************************************************)
(* Proofs about the policy and the polling loop, for every table of task   *)
(* columns, every set of workers that come and go and every clock.         *)
(***************************************************************************)
EXTENDS Queue, TLAPS

-----------------------------------------------------------------------------
(* Facts about the policy. *)

\* A worker selected for a task is available, and one the task may have.
LEMMA SelectedIsAvailable ==
  ASSUME NEW a \in TaskRecord, NEW ws \in SUBSET Profiles,
         SelectWorker(a, ws) # "none"
  PROVE  /\ SelectWorker(a, ws) \in ws
         /\ IsReview(a) => SelectWorker(a, ws) \in ReviewProfiles(a)
         /\ ~IsReview(a) => SelectWorker(a, ws) = ProfileOf(a)
<1> DEFINE wanted == IF IsReview(a) THEN ReviewProfiles(a) ELSE {ProfileOf(a)}
           able == wanted \cap ws
<1>1. SelectWorker(a, ws) =
        CASE able = {} -> "none"
          [] "codex-review" \in able -> "codex-review"
          [] OTHER -> CHOOSE w \in able : TRUE
  BY DEF SelectWorker
<1> HIDE DEF able
<1>2. able # {}
  BY <1>1
<1>3. (CHOOSE w \in able : TRUE) \in able
  BY <1>2
<1>4. SelectWorker(a, ws) \in able
  BY <1>1, <1>2, <1>3
<1> QED
  BY <1>4 DEF able

\* Routing respects the boundary the claim checks: select_worker_for_task sends
\* a task to a P40 profile only if _task_requires_p40 holds of it, or it is a
\* review that names this very profile, which add_task does not forbid.
THEOREM RoutingAgrees ==
  ASSUME NEW a \in TaskRecord, NEW ws \in SUBSET Profiles,
         SelectWorker(a, ws) \in P40Profiles
  PROVE  RequiresP40(a) \/ (IsReview(a) /\ a.reviewer = SelectWorker(a, ws))
<1>0. SelectWorker(a, ws) # "none"
  BY DEF P40Profiles
<1>1. CASE IsReview(a)
  BY <1>0, <1>1, SelectedIsAvailable DEF ReviewProfiles, P40Profiles
<1>2. CASE ~IsReview(a)
  <2>1. SelectWorker(a, ws) = ProfileOf(a)
    BY <1>0, <1>2, SelectedIsAvailable
  <2>2. CASE a.profile # "none"
    BY <1>2, <2>1, <2>2 DEF ProfileOf, RequiresP40
  <2>3. CASE a.profile = "none"
    <3>1. a.kind = "vision" \/ (a.kind = "coding" /\ ~RunsSlow(a))
      BY <2>1, <2>3 DEF ProfileOf, P40Profiles
    <3> QED
      BY <1>2, <2>3, <3>1 DEF RequiresP40, CountsAsVision
  <2> QED
    BY <2>2, <2>3
<1> QED
  BY <1>1, <1>2

\* A review goes to the worker it names and to no other; only codex-review,
\* which is also the default, has a stand-in, air-review, and it is used only
\* while codex-review is away.  A review that names no worker, or a reviewer,
\* therefore never falls back to the P40 or the GTX.
THEOREM ReviewsGoWhereNamed ==
  ASSUME NEW a \in TaskRecord, NEW ws \in SUBSET Profiles, IsReview(a)
  PROVE  /\ SelectWorker(a, ws) # "none" =>
              \/ SelectWorker(a, ws) = a.reviewer
              \/ SelectWorker(a, ws) = "codex-review" /\ a.reviewer = "none"
              \/ /\ SelectWorker(a, ws) = "air-review" /\ "codex-review" \notin ws
                 /\ a.reviewer \in {"none", "codex-review"}
         /\ a.reviewer \in ReviewWorkers \cup {"none"}
              => SelectWorker(a, ws) \in ReviewWorkers \cup {"none"}
<1>1. CASE SelectWorker(a, ws) = "none"
  BY <1>1
<1>2. CASE SelectWorker(a, ws) # "none"
  <2>1. SelectWorker(a, ws) \in ws \cap ReviewProfiles(a)
    BY <1>2, SelectedIsAvailable
  <2>2. "codex-review" \in ReviewProfiles(a) \cap ws
          => SelectWorker(a, ws) = "codex-review"
    BY DEF SelectWorker
  <2>3. CASE a.reviewer \in {"none", "codex-review"}
    BY <2>1, <2>2, <2>3 DEF ReviewProfiles, ReviewWorkers
  <2>4. CASE a.reviewer \notin {"none", "codex-review"}
    BY <2>1, <2>4 DEF ReviewProfiles
  <2> QED
    BY <2>3, <2>4
<1> QED
  BY <1>1, <1>2

\* What the admission policy says of batch work and what get_pending_tasks does,
\* at every hour, for every number of images and all controls: what is admitted
\* is offered, and offered although it is not admitted is what the night control
\* or planning mode lets through, which can_admit_batch_task does not read.
THEOREM AdmissionAgrees ==
  ASSUME NEW a \in TaskRecord, a.mode = "batch", a.schedule # "immediate",
         NEW plan \in {"on", "off"}, NEW m \in {"day", "night"},
         NEW h \in 0..23, NEW pending \in Nat
  PROVE  Eligible(a, OpenWindow(plan, m, h, pending))
           <=> \/ CanAdmitBatch(h, pending)
               \/ m = "night" /\ (plan = "on" \/ pending = 0)
               \/ plan = "on" /\ h < WindowEnd
<1> DEFINE images == IF plan = "on" THEN 0 ELSE pending
           w == CurrentWindow(m, h, images)
<1>1. images \in Nat /\ (images = 0 <=> plan = "on" \/ pending = 0)
  OBVIOUS
<1>2. Eligible(a, w) <=> w = "batch"
  BY DEF Eligible
<1>3. w = "batch" <=> images = 0 /\ (m = "night" \/ h < WindowEnd)
  <2> HIDE DEF images
  <2>1. CASE m = "night"
    BY <1>1, <2>1 DEF CurrentWindow
  <2>2. CASE m = "day"
    BY <1>1, <2>2 DEF CurrentWindow, PolicyWindow, WindowStart, WindowEnd
  <2> QED
    BY <2>1, <2>2
<1>4. CanAdmitBatch(h, pending) <=> pending = 0 /\ h < WindowEnd
  BY DEF CanAdmitBatch, PolicyWindow, WindowStart, WindowEnd
<1>5. OpenWindow(plan, m, h, pending) = w
  BY DEF OpenWindow
<1> HIDE DEF w, images
<1> QED
  BY <1>1, <1>2, <1>3, <1>4, <1>5

-----------------------------------------------------------------------------
(* The polling loop. *)

LEMMA InitTyped == Init => QueueTypeOK /\ BoundaryKept
  BY QueueAssumption
  DEF Init, Unread, QueueTypeOK, BoundaryKept, States, PCs, Windows, Profiles, P40Profiles, ReviewWorkers

\* get_pending_tasks and the claim.
LEMMA PollKeeps ==
  ASSUME QueueTypeOK,
         ReadControls \/ CountVision \/ NothingOffered \/ Claim
           \/ \E t \in Tasks : Pick(t)
  PROVE  QueueTypeOK' /\ BoundaryKept'
<1> USE QueueAssumption DEF QueueTypeOK, BoundaryKept, PCs, storeVars
<1>1. CASE ReadControls
  BY <1>1 DEF ReadControls
<1>2. CASE CountVision
  BY <1>2 DEF CountVision, OpenWindow, CurrentWindow, PolicyWindow, Windows
<1>3. CASE NothingOffered
  BY <1>3 DEF NothingOffered, Unread
<1>4. CASE Claim
  BY <1>4 DEF Claim, SetState, Goto, Continue, Unread, States, Windows
<1>5. ASSUME NEW t \in Tasks, Pick(t)
      PROVE  QueueTypeOK' /\ BoundaryKept'
  BY <1>5 DEF Pick, Unread, Windows
<1> QED
  BY <1>1, <1>2, <1>3, <1>4, <1>5

\* The start, the only step that enters "running": RoutingAgrees.
LEMMA StartKeeps ==
  ASSUME QueueTypeOK, NEW w \in Profiles, Start(w)
  PROVE  QueueTypeOK' /\ BoundaryKept'
<1>1. task \in Tasks /\ Attr[task] \in TaskRecord
  BY QueueAssumption DEF Start, QueueTypeOK
<1>2. QueueTypeOK'
  BY <1>1 DEF Start, SetState, QueueTypeOK, States, PCs
<1>3. w \in P40Profiles =>
        RequiresP40(Attr[task]) \/ (IsReview(Attr[task]) /\ Attr[task].reviewer = w)
  BY <1>1, RoutingAgrees DEF Start, QueueTypeOK
<1>4. IsReview(Attr[task]) => w \in ReviewProfiles(Attr[task])
  BY <1>1, SelectedIsAvailable DEF Start, StartAllowed, QueueTypeOK
<1>5. worker' = w /\ task' = task
  BY DEF Start
<1> QED
  BY <1>2, <1>3, <1>4, <1>5 DEF BoundaryKept

\* The end of a dispatch and the rest of the loop.
LEMMA LoopEndKeeps ==
  ASSUME QueueTypeOK,
         \/ StartRefused \/ NothingToPromote \/ Wake
         \/ \E t \in Tasks : Promote(t)
         \/ \E s \in Results : Finish(s)
  PROVE  QueueTypeOK' /\ BoundaryKept'
<1> USE QueueAssumption DEF QueueTypeOK, BoundaryKept, PCs, States, Windows, Continue, Unread, SetState
<1>1. CASE StartRefused
  BY <1>1 DEF StartRefused
<1>2. CASE NothingToPromote
  BY <1>2 DEF NothingToPromote, Goto, storeVars
<1>3. CASE Wake
  BY <1>3 DEF Wake, storeVars
<1>4. ASSUME NEW t \in Tasks, Promote(t)
      PROVE  QueueTypeOK' /\ BoundaryKept'
  BY <1>4 DEF Promote, Goto
<1>5. ASSUME NEW s \in Results, Finish(s)
      PROVE  QueueTypeOK' /\ BoundaryKept'
  BY <1>5 DEF Finish
<1> QED
  BY <1>1, <1>2, <1>3, <1>4, <1>5

\* Time, operators, workers and new tasks.
LEMMA EnvironmentKeeps ==
  ASSUME QueueTypeOK, BoundaryKept, Environment \/ Tick
  PROVE  QueueTypeOK' /\ BoundaryKept'
<1> USE QueueAssumption DEF QueueTypeOK, BoundaryKept, States, SetState, loopVars
<1>1. ASSUME NEW t \in Tasks, AddTask(t) \/ Cancel(t)
      PROVE  QueueTypeOK' /\ BoundaryKept'
  BY <1>1 DEF AddTask, Cancel
<1>2. CASE SetControl
  BY <1>2 DEF SetControl
<1>3. ASSUME NEW w \in Flaky, UpdateStatus(w)
      PROVE  QueueTypeOK' /\ BoundaryKept'
  BY <1>3 DEF UpdateStatus
<1>4. CASE Tick
  BY <1>4 DEF Tick
<1> QED
  BY <1>1, <1>2, <1>3, <1>4 DEF Environment

LEMMA NextKeeps ==
  QueueTypeOK /\ BoundaryKept /\ [Next]_vars => QueueTypeOK' /\ BoundaryKept'
<1> SUFFICES ASSUME QueueTypeOK, BoundaryKept, [Next]_vars
             PROVE  QueueTypeOK' /\ BoundaryKept'
  OBVIOUS
<1>1. CASE Loop
  <2>1. CASE \E w \in Profiles : Start(w)
    BY <2>1, StartKeeps
  <2>2. CASE ~\E w \in Profiles : Start(w)
    BY <1>1, <2>2, PollKeeps, LoopEndKeeps DEF Loop
  <2> QED
    BY <2>1, <2>2
<1>2. CASE Environment \/ Tick
  BY <1>2, EnvironmentKeeps
<1>3. CASE UNCHANGED vars
  BY <1>3 DEF vars, storeVars, loopVars, QueueTypeOK, BoundaryKept
<1> QED
  BY <1>1, <1>2, <1>3 DEF Next

LEMMA QueueInvariant == Spec => [](QueueTypeOK /\ BoundaryKept)
  BY InitTyped, NextKeeps, PTL DEF Spec

\* Type correctness of the loop, for every set of tasks, workers and hours.
THEOREM QueueTypeCorrect == Spec => []QueueTypeOK
  BY QueueInvariant, PTL

\* Whatever the interleaving of controls, workers, clock and loop: what runs on
\* the P40 was P40 work when it was claimed or is a review that names the P40, and
\* a review runs where ReviewProfiles says.
THEOREM QueueBoundary == Spec => []BoundaryKept
  BY QueueInvariant, PTL
=============================================================================

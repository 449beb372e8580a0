------------------------------- MODULE Backlog --------------------------------
(***************************************************************************)
(* The second shift's backlog: second_shift/backlog_runner.py and          *)
(* backlog_execution_adapter.py over the state file, with the dispatcher   *)
(* (dispatch.py) and the broker controller they consult.                   *)
(*                                                                         *)
(* The registry is one JSON file.  A step is one hold of its lock: a read, *)
(* or a transaction of StateFile.update_state.  GTXBrokerRegistry changes  *)
(* it by a read and, in a later hold, a write of all it has read, so each  *)
(* of its updates is two steps.  What a worker or a gate does to its own   *)
(* worktree happens in the step that records its result.                   *)
(*                                                                         *)
(* A runner is a process that keeps calling run_next.  It may be killed    *)
(* between any two steps and a call may raise.                             *)
(***************************************************************************)
EXTENDS Escalation

CONSTANTS
  Items,        \* the manifest: an item is its position in it
  ClassOf,      \* item -> what the classifier makes of its description
  Runners,
  NoItem, NoOwner, NoState,
  ReviewTriggers,   \* what the reviews of failed attempts may say
  CrashPoints,  \* where a runner may be killed
  FaultPoints,  \* where a call may raise
  MaxMishaps    \* bound on the kills and raised calls of each runner

VARIABLES
  reg,       \* the registry file
  pc,        \* the next step of a runner
  job,       \* the locals of its run_next
  held,      \* the items list it passes along
  snap,      \* the registry a GTXBrokerRegistry update has read
  life,      \* a runner's kills, which tell its process ids apart, and mishaps
  approved   \* history: items that passed a final verification

vars == <<reg, pc, job, held, snap, life, approved>>

Statuses == {"queued", "in_progress", "completed", "blocked"}

PendingPhases == {"review_pending", "final_verification_pending"}
Phases == PendingPhases \cup
  {"none", "executing", "worker_complete", "tests_complete", "self_review_complete",
   "review_complete", "final_verification_complete", "recovery_required",
   "completed", "queued", "blocked", "exception"}

\* mutated: the reviewer changed the worktree it was to look at.
Decided == {"passed", "rejected"}
Answers == Decided \cup {"unavailable", "mutated"}
Verdicts == Answers \cup {"none"}

Modes == {"run", "review", "final", "exception"}
Stages == {"route", "candidate", "final", "unrecorded"}
Rounds == {"note", "current", "history"}

PCs == {"idle", "resume", "claim", "inspect", "recover", "recovered", "route",
        "load", "save", "dispatch", "request", "begin", "block", "work", "tests",
        "self_review", "review", "suspend", "suspended", "final", "keep",
        "record", "recorded", "settle", "settled", "handle"}

ASSUME BacklogAssumption ==
  /\ Items \subseteq Nat
  /\ ClassOf \in [Items -> TaskClasses]
  /\ NoItem \notin Items
  /\ ReviewTriggers \subseteq Triggers
  /\ "none" \in ReviewTriggers
  /\ CrashPoints \subseteq PCs \ {"idle"}
  /\ FaultPoints \subseteq PCs \ {"idle", "handle"}
  /\ MaxMishaps \in Nat

-----------------------------------------------------------------------------
(* The registry: items holds backlog_items, rec the checkpoints of         *)
(* backlog_execution, current and history the broker's states, selected    *)
(* the dispatcher's choice.                                                *)

BrokerStates == [item : Items, worker : CodingWorkers, attempt : Attempts]

\* A record keeps of every gate's result whether it is a pass.
Gates == {"result", "tests", "review", "final"}
NoRecord == [phase |-> "none", worker |-> "p40_qwen35", owner |-> NoOwner, passed |-> {}]

InitReg ==
  [ items    |-> [i \in Items |-> "queued"],
    rec      |-> [i \in Items |-> NoRecord],
    current  |-> NoState,
    history  |-> [i \in Items |-> NoState],
    selected |-> "p40" ]

With(items, s) == {i \in Items : items[i] = s}
Earliest(i, S) == i \in S /\ \A j \in S : i <= j

Pending == {i \in Items : reg.rec[i].phase \in PendingPhases}

IsCurrent(i) == reg.current # NoState /\ reg.current.item = i

\* get_task_state
StateOf(i) == IF IsCurrent(i) THEN reg.current ELSE reg.history[i]

Alive(owner) == owner # NoOwner /\ life[owner[1]].kills = owner[2]

NoJob == [mode |-> "run", stage |-> "route", item |-> NoItem, worker |-> "p40_qwen35",
          class |-> "operational", result |-> "none", tests |-> "none",
          review |-> "none", final |-> "none", next |-> NoState, round |-> "history",
          status |-> "queued"]

Init ==
  /\ reg = InitReg
  /\ pc = [p \in Runners |-> "idle"]
  /\ job = [p \in Runners |-> NoJob]
  /\ held = [p \in Runners |-> InitReg.items]
  /\ snap = [p \in Runners |-> InitReg]
  /\ life = [p \in Runners |-> [kills |-> 0, mishaps |-> 0]]
  /\ approved = {}

-----------------------------------------------------------------------------
(* Parts of steps. *)

Goto(p, next) == pc' = [pc EXCEPT ![p] = next]
SetJob(p, j) == job' = [job EXCEPT ![p] = j]

\* run_next returns, or raises to its caller.
Return(p) ==
  /\ Goto(p, "idle")
  /\ job' = [job EXCEPT ![p] = NoJob]
  /\ held' = [held EXCEPT ![p] = InitReg.items]

\* _checkpoint: record r for the item, and the phase.  The owner is looked at
\* in the first phase only, and forgotten after it.
Checkpoint(i, phase, r) ==
  reg' = [reg EXCEPT !.rec[i] =
            [r EXCEPT !.phase = phase,
                      !.owner = IF phase = "executing" THEN @ ELSE NoOwner]]

WithResult(r, gate, verdict) ==
  [r EXCEPT !.passed = IF verdict = "passed" THEN @ \cup {gate} ELSE @ \ {gate}]

\* transition_item_state writes the caller's list of items, not the item.
Transition(p, i, s) ==
  reg' = [reg EXCEPT !.items = [held[p] EXCEPT ![i] = s]]

Quiet == UNCHANGED <<snap, life, approved>>
NoHistory == UNCHANGED <<snap, life>>

\* What an attempt is reported as.
Classification(j) ==
  IF j.mode = "exception" THEN "operational"
  ELSE IF j.mode = "run" /\ j.result # "passed" THEN j.class
  ELSE IF j.mode = "run" /\ j.tests # "passed" THEN "substantive"
  ELSE CASE j.review = "passed"   -> "success"
         [] j.review = "rejected" -> "substantive"
         [] OTHER                 -> "operational"

\* The gates a record written from the locals has as passed.
Passes(j, before) ==
  {g \in Gates \ {"final"} : j[g] = "passed"} \cup (before \cap {"final"})

Implemented(j) == j.result = "passed" /\ j.tests = "passed"
CandidateSuccess(j) == Classification(j) = "success"
Unverified(j) == j.final \in {"unavailable", "mutated"}

-----------------------------------------------------------------------------
(* run_next: first the items whose candidate awaits a gate, then the queue. *)

Wake(p) ==
  /\ pc[p] = "idle"
  /\ held' = [held EXCEPT ![p] = reg.items]
  /\ Goto(p, "resume")
  /\ UNCHANGED <<reg, job>> /\ Quiet

Recalled(r, gate) == IF gate \in r.passed THEN "passed" ELSE "rejected"

Resumed(i) ==
  LET r == reg.rec[i] IN
  [NoJob EXCEPT
     !.mode = IF r.phase = "review_pending" THEN "review" ELSE "final",
     !.stage = IF r.phase = "review_pending" THEN "candidate" ELSE "final",
     !.item = i, !.worker = r.worker, !.result = Recalled(r, "result"),
     !.tests = Recalled(r, "tests"), !.review = Recalled(r, "review")]

Resume(p) ==
  /\ pc[p] = "resume"
  /\ \/ \E i \in Items :
          /\ Earliest(i, Pending)
          /\ SetJob(p, Resumed(i))
          /\ Goto(p, IF reg.rec[i].phase = "review_pending" THEN "review" ELSE "final")
     \/ /\ Pending = {}
        /\ Goto(p, "claim")
        /\ UNCHANGED job
  /\ UNCHANGED <<reg, held>> /\ Quiet

\* mutant: the claim does not look for an item that is in progress
ClaimableBusy(i) == Earliest(i, With(reg.items, "queued"))

Claimable(i) ==
  /\ With(reg.items, "in_progress") = {}
  /\ Earliest(i, With(reg.items, "queued"))

Claim(p) ==
  /\ pc[p] = "claim"
  /\ \/ \E i \in Items :
          /\ Claimable(i)
          /\ reg' = [reg EXCEPT !.items[i] = "in_progress"]
          /\ held' = [held EXCEPT ![p] = reg'.items]
          /\ SetJob(p, [NoJob EXCEPT !.item = i])
          /\ Goto(p, "route")
     \/ /\ \A i \in Items : ~Claimable(i)
        /\ With(reg.items, "in_progress") # {}
        /\ held' = [held EXCEPT ![p] = reg.items]
        /\ Goto(p, "inspect")
        /\ UNCHANGED <<reg, job>>
     \/ /\ \A i \in Items : ~Claimable(i)
        /\ With(reg.items, "in_progress") = {}
        /\ Return(p)
        /\ UNCHANGED reg
  /\ Quiet

\* _in_progress_outcome: an item of another runner, or of a killed one.
LooksAlive(r) == r.phase = "executing" /\ Alive(r.owner)

Inspect(p) ==
  /\ pc[p] = "inspect"
  /\ \E i \in Items :
       /\ Earliest(i, With(held[p], "in_progress"))
       /\ \/ /\ LooksAlive(reg.rec[i])
             /\ Return(p)
          \/ /\ ~LooksAlive(reg.rec[i])
             /\ SetJob(p, [NoJob EXCEPT !.item = i])
             /\ Goto(p, "recover")
             /\ UNCHANGED held
  /\ UNCHANGED reg /\ Quiet

\* mutant: only the record is written
RecoverUnwritten(p) ==
  /\ pc[p] = "recover"
  /\ Goto(p, "recovered")
  /\ UNCHANGED <<reg, job, held>> /\ Quiet

Recover(p) ==
  /\ pc[p] = "recover"
  /\ Transition(p, job[p].item, "blocked")
  /\ Goto(p, "recovered")
  /\ UNCHANGED <<job, held>> /\ Quiet

Recovered(p) ==
  /\ pc[p] = "recovered"
  /\ Checkpoint(job[p].item, "recovery_required", reg.rec[job[p].item])
  /\ Return(p) /\ Quiet

-----------------------------------------------------------------------------
(* route_coding_request, and the rounds of GTXBrokerRegistry.               *)

\* The worker the broker has already selected for this goal, else a new state.
Route(p) ==
  /\ pc[p] = "route"
  /\ LET i == job[p].item
         fresh == [item |-> i, worker |-> FirstWorker(ClassOf[i]), attempt |-> 1]
     IN
     \/ /\ IsCurrent(i)
        /\ SetJob(p, [job[p] EXCEPT !.worker = reg.current.worker])
        /\ Goto(p, "dispatch")
     \/ /\ ~IsCurrent(i)
        /\ SetJob(p, [job[p] EXCEPT !.worker = fresh.worker, !.next = fresh,
                                    !.round = "current"])
        /\ Goto(p, "load")
  /\ UNCHANGED <<reg, held>> /\ Quiet

Load(p) ==
  /\ pc[p] = "load"
  /\ snap' = [snap EXCEPT ![p] = reg]
  /\ Goto(p, "save")
  /\ UNCHANGED <<reg, job, held, life, approved>>

\* save_registry overwrites the file with what was read, changed in one part.
Applied(r, round, state) ==
  CASE round = "current" -> [r EXCEPT !.current = state]
    [] round = "history" -> [r EXCEPT !.history[state.item] = state]
    [] OTHER             -> r

Save(p) ==
  /\ pc[p] = "save"
  /\ reg' = Applied(snap[p], job[p].round, job[p].next)
  /\ \/ /\ job[p].round # "history"
        /\ SetJob(p, [job[p] EXCEPT !.round = IF @ = "note" THEN "current" ELSE "history"])
        /\ Goto(p, "load")
     \/ /\ job[p].round = "history"
        /\ Goto(p, IF job[p].stage = "route" THEN "dispatch" ELSE "recorded")
        /\ UNCHANGED job
  /\ snap' = [snap EXCEPT ![p] = InitReg]
  /\ UNCHANGED <<held, life, approved>>

Dispatch(p) ==
  /\ pc[p] = "dispatch"
  /\ reg' = [reg EXCEPT !.selected = job[p].worker]
  /\ Goto(p, "request")
  /\ UNCHANGED <<job, held>> /\ Quiet

\* The registry is read anew for the request.
Request(p) ==
  /\ pc[p] = "request"
  /\ SetJob(p, [job[p] EXCEPT !.worker = reg.selected, !.stage = "candidate"])
  /\ Goto(p, "begin")
  /\ UNCHANGED <<reg, held>> /\ Quiet

\* dispatch_next: routing raised.
Block(p) ==
  /\ pc[p] = "block"
  /\ Transition(p, job[p].item, "blocked")
  /\ Return(p) /\ Quiet

-----------------------------------------------------------------------------
(* _run_next_once: the worker and the gates, each with its checkpoint.      *)

Begin(p) ==
  /\ pc[p] = "begin"
  /\ LET i == job[p].item IN
     Checkpoint(i, "executing",
                [reg.rec[i] EXCEPT !.worker = job[p].worker, !.owner = <<p, life[p].kills>>])
  /\ Goto(p, "work")
  /\ UNCHANGED <<job, held>> /\ Quiet

\* A success without changed files counts as no_code.
Execute(p) ==
  /\ pc[p] = "work"
  /\ \E result \in Decided, class \in {"substantive", "operational"} :
       /\ SetJob(p, [job[p] EXCEPT !.result = result, !.class = class])
       /\ LET i == job[p].item IN
          Checkpoint(i, "worker_complete", WithResult(reg.rec[i], "result", result))
  /\ Goto(p, "tests")
  /\ UNCHANGED <<held, snap, life, approved>>

\* mutant: the tests are run, and not recorded
TestUnrecorded(p) ==
  /\ pc[p] = "tests"
  /\ \E verdict \in Decided :
       LET j == [job[p] EXCEPT !.tests = verdict] IN
       /\ job[p].result # "passed" => verdict = "rejected"
       /\ SetJob(p, j)
       /\ Checkpoint(j.item, "tests_complete", reg.rec[j.item])
       /\ Goto(p, IF j.worker \in P40Models /\ Implemented(j) THEN "self_review" ELSE "review")
  /\ UNCHANGED <<held, snap, life, approved>>

Test(p) ==
  /\ pc[p] = "tests"
  /\ \E verdict \in Decided :
       LET i == job[p].item
           j == [job[p] EXCEPT !.tests = verdict]
       IN
       /\ job[p].result # "passed" => verdict = "rejected"
       /\ SetJob(p, j)
       /\ Checkpoint(i, "tests_complete", WithResult(reg.rec[i], "tests", verdict))
       /\ Goto(p, IF j.worker \in P40Models /\ Implemented(j) THEN "self_review" ELSE "review")
  /\ UNCHANGED <<held, snap, life, approved>>

\* Only a self-review that changed the worktree has a say.
SelfReview(p) ==
  /\ pc[p] = "self_review"
  /\ \/ UNCHANGED job
     \/ SetJob(p, [job[p] EXCEPT !.result = "rejected", !.class = "substantive",
                                 !.review = "rejected"])
  /\ Checkpoint(job[p].item, "self_review_complete", reg.rec[job[p].item])
  /\ Goto(p, "review")
  /\ UNCHANGED <<held, snap, life, approved>>

\* A self-review that changed the worktree has already set the verdict.
ShouldReview(j) ==
  /\ j.review = "none"
  /\ j.worker = "codex" \/ j.result = "passed" \/ j.class = "substantive"

\* The review gate with its failover.
Review(p) ==
  /\ pc[p] = "review"
  /\ job[p].mode = "run"
  /\ \E verdict \in Answers :
       LET i == job[p].item
           j == [job[p] EXCEPT !.review = verdict]
       IN
       /\ ~ShouldReview(job[p]) => verdict = "rejected"
       /\ SetJob(p, j)
       /\ Checkpoint(i, "review_complete", WithResult(reg.rec[i], "review", verdict))
       /\ Goto(p, CASE Implemented(j) /\ verdict = "unavailable" -> "suspend"
                    [] CandidateSuccess(j)                       -> "final"
                    [] OTHER                                     -> "record")
  /\ UNCHANGED <<held, snap, life, approved>>

\* The candidate is preserved until a reviewer is available.
Suspend(p) ==
  /\ pc[p] = "suspend"
  /\ Transition(p, job[p].item, "blocked")
  /\ Goto(p, "suspended")
  /\ UNCHANGED <<job, held>> /\ Quiet

Suspended(p) ==
  /\ pc[p] = "suspended"
  /\ LET j == job[p] IN
     Checkpoint(j.item, "review_pending",
                [reg.rec[j.item] EXCEPT !.worker = j.worker, !.passed = Passes(j, @)])
  /\ Return(p) /\ Quiet

\* _resume_review_pending: a gate that raises counts as unavailable.
ReviewAgain(p) ==
  /\ pc[p] = "review"
  /\ job[p].mode = "review"
  /\ \E verdict \in Answers :
       LET i == job[p].item IN
       /\ Checkpoint(i, "review_pending", WithResult(reg.rec[i], "review", verdict))
       /\ \/ /\ verdict = "unavailable"
             /\ Return(p)
          \/ /\ verdict # "unavailable"
             /\ SetJob(p, [job[p] EXCEPT !.review = verdict])
             /\ Goto(p, "record")
             /\ UNCHANGED held
  /\ UNCHANGED <<snap, life, approved>>

\* The final verification; a gate that raises while resuming is unavailable.
FinalPhase(mode) ==
  IF mode = "final" THEN "final_verification_pending" ELSE "final_verification_complete"

Final(p) ==
  /\ pc[p] = "final"
  /\ \E verdict \in Answers :
       LET i == job[p].item
           j == [job[p] EXCEPT !.final = verdict]
       IN
       /\ Checkpoint(i, FinalPhase(j.mode), WithResult(reg.rec[i], "final", verdict))
       /\ approved' = IF verdict = "passed" THEN approved \cup {i} ELSE approved
       /\ \/ /\ j.mode = "final" /\ Unverified(j)
             /\ Return(p)
          \/ /\ j.mode = "review" /\ Unverified(j)
             /\ SetJob(p, j) /\ Goto(p, "keep")
             /\ UNCHANGED held
          \/ /\ j.mode = "run" \/ ~Unverified(j)
             /\ SetJob(p, j) /\ Goto(p, "record")
             /\ UNCHANGED held
  /\ UNCHANGED <<snap, life>>

\* _resume_review_pending around its final verification.
Keep(p) ==
  /\ pc[p] = "keep"
  /\ LET j == job[p] IN
     Checkpoint(j.item, "final_verification_pending",
                [reg.rec[j.item] EXCEPT !.worker = j.worker, !.passed = Passes(j, @)])
  /\ \/ /\ job[p].final = "none"
        /\ SetJob(p, [job[p] EXCEPT !.stage = "final"])
        /\ Goto(p, "final")
        /\ UNCHANGED held
     \/ /\ Unverified(job[p])
        /\ Return(p)
  /\ Quiet

-----------------------------------------------------------------------------
(* record_attempt_result of the controller, then of the dispatcher, then   *)
(* the outcome.  A candidate with a decided final verification is reported *)
(* twice: first the candidate, then the verification.                      *)

Reported(j) ==
  IF j.stage = "final" THEN (IF j.final = "passed" THEN "success" ELSE "operational")
                       ELSE Classification(j)

\* mutant: an attempt that does not change the worker gives no new state
RecordUnset(p) ==
  /\ pc[p] = "record"
  /\ LET state == StateOf(job[p].item) IN
     /\ state # NoState
     /\ \E trigger \in ReviewTriggers :
          LET n == NextAttempt(state.attempt)
              worker == NextWorker(Reported(job[p]), trigger, n)
          IN
          SetJob(p, [job[p] EXCEPT
            !.next = IF worker = state.worker THEN NoState
                     ELSE [item |-> job[p].item, worker |-> worker, attempt |-> n],
            !.round = IF worker = state.worker THEN "current" ELSE "note"])
  /\ Goto(p, "load")
  /\ UNCHANGED <<reg, held>> /\ Quiet

Record(p) ==
  /\ pc[p] = "record"
  /\ LET j == job[p]
         state == StateOf(j.item)
     IN
     /\ state # NoState
     /\ \E trigger \in ReviewTriggers :
          LET n == NextAttempt(state.attempt)
              worker == NextWorker(Reported(j), trigger, n)
          IN
          /\ Reported(j) # "substantive" => trigger = "none"
          /\ SetJob(p, [j EXCEPT
               !.next = [item |-> j.item, worker |-> worker, attempt |-> n],
               !.round = IF worker = state.worker THEN "current" ELSE "note"])
     /\ Goto(p, "load")
  /\ UNCHANGED <<reg, held>> /\ Quiet

Recorded(p) ==
  /\ pc[p] = "recorded"
  /\ reg' = [reg EXCEPT !.selected = job[p].next.worker]
  /\ LET j == job[p] IN
     \/ /\ j.stage = "candidate" /\ j.mode = "run" /\ j.final \in Decided
        /\ SetJob(p, [j EXCEPT !.stage = "final"])
        /\ Goto(p, "record")
     \/ /\ j.stage = "candidate" /\ j.mode = "review" /\ CandidateSuccess(j)
        /\ Goto(p, "keep")
        /\ UNCHANGED job
     \/ /\ \/ j.stage = "final"
           \/ j.mode = "run" /\ j.final \notin Decided
           \/ j.mode = "review" /\ ~CandidateSuccess(j)
           \/ j.mode = "exception"
        /\ Goto(p, "settle")
        /\ UNCHANGED job
  /\ UNCHANGED held /\ Quiet

\* mutant: an unavailable final verification does not hold back the completion
OutcomesUnverified(j) ==
  IF j.final \in {"passed", "unavailable"} THEN {"completed"}
  ELSE IF j.final = "mutated" THEN {"blocked"}
  ELSE IF j.mode = "run" THEN {"blocked", "queued"}
  ELSE {"queued"}

\* Evidence of a gate that is not configured blocks a failed attempt; the
\* worker selected next always has an executor.
Outcomes(j) ==
  IF j.stage = "unrecorded" \/ Unverified(j) THEN {"blocked"}
  ELSE IF j.final = "passed" THEN {"completed"}
  ELSE IF j.mode = "run" THEN {"blocked", "queued"}
  ELSE {"queued"}

Settle(p) ==
  /\ pc[p] = "settle"
  /\ \E s \in Outcomes(job[p]) :
       /\ Transition(p, job[p].item, s)
       /\ SetJob(p, [job[p] EXCEPT !.status = s])
  /\ Goto(p, "settled")
  /\ UNCHANGED held /\ Quiet

LastPhase(j) ==
  IF j.mode = "exception" THEN "exception"
  ELSE IF Unverified(j) THEN "final_verification_pending"
  ELSE j.status

\* mutant: the last checkpoint is left out
SettledUnrecorded(p) ==
  /\ pc[p] = "settled"
  /\ Return(p)
  /\ UNCHANGED reg /\ Quiet

Settled(p) ==
  /\ pc[p] = "settled"
  /\ LET i == job[p].item IN Checkpoint(i, LastPhase(job[p]), reg.rec[i])
  /\ Return(p) /\ Quiet

-----------------------------------------------------------------------------
(* Exceptions and kills. *)

\* mutant: an item in progress is left as it is
HandleIgnored(p) ==
  /\ pc[p] = "handle"
  /\ Return(p)
  /\ UNCHANGED reg /\ Quiet

\* _handle_pending_exception, whose checkpoint keeps the phase, then
\* _handle_unexpected_exception; their reads of the file are taken together.
Handle(p) ==
  /\ pc[p] = "handle"
  /\ \/ /\ Pending # {} \/ With(reg.items, "in_progress") = {}
        /\ Return(p)
     \/ /\ Pending = {}
        /\ \E i \in Items :
             /\ Earliest(i, With(reg.items, "in_progress"))
             /\ SetJob(p, [NoJob EXCEPT !.mode = "exception", !.stage = "candidate",
                                       !.item = i, !.worker = reg.rec[i].worker])
        /\ held' = [held EXCEPT ![p] = reg.items]
        /\ Goto(p, "record")
  /\ UNCHANGED reg /\ Quiet

Recording == {"record", "load", "save", "recorded"}

Fail(p) ==
  /\ LET j == job[p]
         routing == j.stage = "route" /\ pc[p] \in {"route", "load", "save"}
         resuming == j.mode \in {"review", "final"} /\ pc[p] \in {"review", "final"}
     IN
     /\ ~resuming
     /\ \/ /\ routing
           /\ SetJob(p, [j EXCEPT !.worker = "p40"])
           /\ Goto(p, "dispatch")
           /\ UNCHANGED held
        \/ /\ pc[p] = "dispatch"
           /\ Goto(p, "block")
           /\ UNCHANGED <<job, held>>
        \/ /\ j.mode = "exception" /\ pc[p] \in Recording
           /\ SetJob(p, [j EXCEPT !.stage = "unrecorded"])
           /\ Goto(p, "settle")
           /\ UNCHANGED held
        \/ /\ j.mode = "exception" /\ pc[p] \notin Recording
           /\ Return(p)
        \/ /\ j.mode # "exception" /\ ~routing /\ pc[p] # "dispatch"
           /\ SetJob(p, NoJob)
           /\ Goto(p, "handle")
           /\ held' = [held EXCEPT ![p] = InitReg.items]
  /\ snap' = [snap EXCEPT ![p] = InitReg]
  /\ UNCHANGED <<reg, approved>>

\* "No state found for task": the broker failed while the goal was routed.
RecordUnknown(p) ==
  /\ pc[p] = "record"
  /\ StateOf(job[p].item) = NoState
  /\ Fail(p)
  /\ UNCHANGED life

Raise(p) ==
  /\ pc[p] \in FaultPoints
  /\ life[p].mishaps < MaxMishaps
  /\ life' = [life EXCEPT ![p].mishaps = @ + 1]
  /\ Fail(p)

Kill(p) ==
  /\ pc[p] \in CrashPoints
  /\ life[p].mishaps < MaxMishaps
  /\ life' = [life EXCEPT ![p] = [kills |-> @.kills + 1, mishaps |-> @.mishaps + 1]]
  /\ Return(p)
  /\ snap' = [snap EXCEPT ![p] = InitReg]
  /\ UNCHANGED <<reg, approved>>

Step(p) ==
  \/ Wake(p) \/ Resume(p) \/ Claim(p) \/ Inspect(p) \/ Recover(p) \/ Recovered(p)
  \/ Route(p) \/ Load(p) \/ Save(p) \/ Dispatch(p) \/ Request(p) \/ Block(p)
  \/ Begin(p) \/ Execute(p) \/ Test(p) \/ SelfReview(p) \/ Review(p)
  \/ Suspend(p) \/ Suspended(p) \/ ReviewAgain(p) \/ Final(p) \/ Keep(p)
  \/ Record(p) \/ Recorded(p) \/ Settle(p) \/ Settled(p) \/ Handle(p)
  \/ RecordUnknown(p)

Next == \E p \in Runners : Step(p) \/ Raise(p) \/ Kill(p)

Spec == Init /\ [][Next]_vars

\* Runners keep calling run_next, and a gate is not unavailable for ever.
GateDecides(p) ==
  \/ ReviewAgain(p) /\ pc'[p] = "record"
  \/ Final(p) /\ job'[p].final \in Decided

Fairness == \A p \in Runners : WF_vars(Step(p)) /\ SF_vars(GateDecides(p))
FairSpec == Spec /\ Fairness

-----------------------------------------------------------------------------
(* Properties. *)

JobType ==
  [ mode : Modes, stage : Stages, item : Items \cup {NoItem}, worker : CodingWorkers,
    class : {"substantive", "operational"}, result : Verdicts, tests : Verdicts,
    review : Verdicts, final : Verdicts, next : BrokerStates \cup {NoState},
    round : Rounds, status : Statuses \ {"in_progress"} ]

RecordType ==
  [ phase : Phases, worker : CodingWorkers, owner : (Runners \X Nat) \cup {NoOwner},
    passed : SUBSET Gates ]

RegType ==
  [ items : [Items -> Statuses], rec : [Items -> RecordType],
    current : BrokerStates \cup {NoState},
    history : [Items -> BrokerStates \cup {NoState}], selected : CodingWorkers ]

\* Steps that work on an item, and those that write a new broker state.
OnItem == PCs \ {"idle", "resume", "claim", "inspect", "handle"}
WithState == {"load", "save", "recorded"}

\* The file and every runner's locals are well formed, and no step uses a
\* local that its path has not set.
BacklogTypeOK ==
  /\ reg \in RegType
  /\ pc \in [Runners -> PCs]
  /\ job \in [Runners -> JobType]
  /\ held \in [Runners -> [Items -> Statuses]]
  /\ snap \in [Runners -> RegType]
  /\ life \in [Runners -> [kills : Nat, mishaps : Nat]]
  /\ approved \subseteq Items
  /\ \A p \in Runners :
       /\ pc[p] \in OnItem => job[p].item \in Items
       /\ pc[p] \in WithState => job[p].next \in BrokerStates

\* An item counts as completed only if a final verification of it has
\* passed, whatever is killed, raises, or is written back by a runner that
\* works from an old copy of the file.
CompletedVerified ==
  \A i \in Items : reg.items[i] = "completed" => i \in approved

\* The evidence a completion rests on is in the file before the completion:
\* worker, tests, review and final verification have all passed.
EvidenceFirst ==
  [][\A i \in Items :
       reg.items[i] # "completed" /\ reg'.items[i] = "completed"
         => reg.rec[i].passed = Gates]_vars

\* A transition of an item changes that item only: it does not undo what
\* happened to the others since the runner read the list.
TransitionsOneItem ==
  [][\A p \in Runners :
       pc[p] \in {"recover", "block", "suspend", "settle"} /\ pc'[p] # pc[p]
         => \A i \in Items : reg'.items[i] # reg.items[i] => i = job[p].item]_vars

\* An item that looks like being executed is: the runner that its record
\* names as a live owner is on it and has not returned.
LiveLookingIsLive ==
  \A i \in Items :
    reg.items[i] = "in_progress" /\ LooksAlive(reg.rec[i])
      => LET p == reg.rec[i].owner[1] IN
         pc[p] = "handle" \/ (pc[p] \in OnItem /\ job[p].item = i)

\* The queue goes through the manifest in order, one item at a time, and
\* leaves completed items alone.
Lifecycle == INSTANCE BacklogLifecycle WITH status <- reg.items
FollowsQueue == Lifecycle!Spec

\* Every attempt ends: an item does not stay in progress.
AttemptsEnd ==
  \A i \in Items : reg.items[i] = "in_progress" ~> reg.items[i] # "in_progress"

\* A preserved candidate of an item that the broker has routed gets its
\* verification, and with it the queue behind it moves on.
CandidatesResolve ==
  \A i \in Items : (i \in Pending /\ StateOf(i) # NoState) ~> i \notin Pending
=============================================================================

---------------------------- MODULE Backlog_proofs ----------------------------
(***************************************************************************)
(* Proofs about the backlog, for every manifest, every number of runners   *)
(* in any interleaving, and any kills and raised calls.                    *)
(***************************************************************************)
EXTENDS Backlog, TLAPS

(***************************************************************************)
(* Escalation: the worker of the next attempt.                             *)
(***************************************************************************)

\* The counter stays within what the limit tells apart.
LEMMA NextAttemptTyped ==
  ASSUME NEW n \in Attempts
  PROVE  NextAttempt(n) \in Attempts
BY EscalationAssumption DEF Attempts, NextAttempt

LEMMA WorkersTyped ==
  /\ \A class : FirstWorker(class) \in CodingWorkers
  /\ \A r, t, n : NextWorker(r, t, n) \in CodingWorkers
BY DEF FirstWorker, NextWorker, CodingWorkers, P40Models

(***************************************************************************)
(* The types of the parts.                                                 *)
(***************************************************************************)

LEMMA NoJobTyped == NoJob \in JobType /\ NoJob.item = NoItem /\ NoJob.final = "none"
BY DEF NoJob, JobType, Modes, Stages, Rounds, Statuses, Verdicts, Answers, CodingWorkers,
       P40Models

LEMMA InitRegTyped == InitReg \in RegType /\ InitReg.items = [i \in Items |-> "queued"]
BY DEF InitReg, RegType, RecordType, NoRecord, Statuses, Phases, PendingPhases,
       CodingWorkers, P40Models

\* Locals stay well formed when verdicts are filled in.
Graded(j, v, c) == [j EXCEPT !.result = v, !.class = c]
Tried(j, v) == [j EXCEPT !.tests = v]
Refused(j) == [j EXCEPT !.result = "rejected", !.class = "substantive",
                        !.review = "rejected"]

Given(j, w) == [j EXCEPT !.worker = w]
Staged(j, g) == [j EXCEPT !.stage = g]

LEMMA DecidedIsVerdict == Decided \subseteq Verdicts /\ "rejected" \in Decided
BY DEF Decided, Verdicts, Answers

LEMMA GivenTyped ==
  ASSUME NEW j \in JobType, NEW w \in CodingWorkers
  PROVE  Given(j, w) \in JobType /\ Given(j, w).item = j.item
BY DEF Given, JobType

LEMMA StagedTyped ==
  ASSUME NEW j \in JobType, NEW g \in Stages
  PROVE  Staged(j, g) \in JobType /\ Staged(j, g).item = j.item
BY DEF Staged, JobType

LEMMA GradedTyped ==
  ASSUME NEW j \in JobType, NEW v \in Decided, NEW c \in {"substantive", "operational"}
  PROVE  Graded(j, v, c) \in JobType /\ Graded(j, v, c).item = j.item
BY DecidedIsVerdict DEF Graded, JobType

LEMMA TriedTyped ==
  ASSUME NEW j \in JobType, NEW v \in Decided
  PROVE  Tried(j, v) \in JobType /\ Tried(j, v).item = j.item
BY DecidedIsVerdict DEF Tried, JobType

LEMMA RefusedTyped ==
  ASSUME NEW j \in JobType
  PROVE  Refused(j) \in JobType /\ Refused(j).item = j.item
BY DecidedIsVerdict DEF Refused, JobType

\* The locals a run begins with, for an item and with what a record says.
LEMMA JobClaimed ==
  ASSUME NEW i \in Items
  PROVE  [NoJob EXCEPT !.item = i] \in JobType /\ [NoJob EXCEPT !.item = i].item = i
BY NoJobTyped DEF JobType

LEMMA JobBegun ==
  ASSUME NEW i \in Items, NEW w \in CodingWorkers
  PROVE  /\ [NoJob EXCEPT !.mode = "exception", !.stage = "candidate",
                          !.item = i, !.worker = w] \in JobType
         /\ [NoJob EXCEPT !.mode = "exception", !.stage = "candidate",
                          !.item = i, !.worker = w].item = i
BY NoJobTyped DEF JobType, Modes, Stages

Resumption(i, w, m, g, v1, v2, v3) ==
  [NoJob EXCEPT !.mode = m, !.stage = g, !.item = i, !.worker = w,
                !.result = v1, !.tests = v2, !.review = v3]

LEMMA JobResumed ==
  ASSUME NEW i \in Items, NEW w \in CodingWorkers, NEW m \in Modes, NEW g \in Stages,
         NEW v1 \in Verdicts, NEW v2 \in Verdicts, NEW v3 \in Verdicts
  PROVE  /\ Resumption(i, w, m, g, v1, v2, v3) \in JobType
         /\ Resumption(i, w, m, g, v1, v2, v3).item = i
BY NoJobTyped DEF JobType, Resumption

\* So does a record that names its worker and owner.
LEMMA RecordBegun ==
  ASSUME NEW r \in RecordType, NEW w \in CodingWorkers, NEW p \in Runners, NEW n \in Nat
  PROVE  [r EXCEPT !.worker = w, !.owner = <<p, n>>] \in RecordType
BY DEF RecordType

\* A checkpoint writes a well-formed record, and no item's status.
LEMMA CheckpointTyped ==
  ASSUME reg \in RegType, NEW i \in Items, NEW phase \in Phases, NEW r \in RecordType,
         Checkpoint(i, phase, r)
  PROVE  reg' \in RegType /\ reg'.items = reg.items
BY DEF Checkpoint, RegType, RecordType

LEMMA ResultTyped ==
  ASSUME NEW r \in RecordType, NEW gate \in Gates, NEW verdict
  PROVE  WithResult(r, gate, verdict) \in RecordType
BY DEF WithResult, RecordType

LEMMA KeptTyped ==
  ASSUME NEW r \in RecordType, NEW w \in CodingWorkers, NEW j
  PROVE  [r EXCEPT !.worker = w, !.passed = Passes(j, @)] \in RecordType
<1>1. Passes(j, r.passed) \in SUBSET Gates
  BY DEF Passes, Gates
<1> QED
  BY <1>1 DEF RecordType

\* A transition writes the caller's list with one item changed.
LEMMA TransitionTyped ==
  ASSUME reg \in RegType, held \in [Runners -> [Items -> Statuses]],
         NEW p \in Runners, NEW i \in Items, NEW s \in Statuses, Transition(p, i, s)
  PROVE  reg' \in RegType /\ reg'.items = [held[p] EXCEPT ![i] = s]
BY DEF Transition, RegType

\* A runner that goes on, with locals j, leaves the state well formed.
LEMMA GoesOnTyped ==
  ASSUME BacklogTypeOK, NEW p \in Runners, NEW next \in PCs, NEW j \in JobType,
         Goto(p, next), SetJob(p, j) \/ (j = job[p] /\ UNCHANGED job),
         next \in OnItem => j.item \in Items,
         next \in WithState => j.next \in BrokerStates,
         reg' \in RegType, held' \in [Runners -> [Items -> Statuses]],
         snap' \in [Runners -> RegType],
         life' \in [Runners -> [kills : Nat, mishaps : Nat]],
         approved' \subseteq Items
  PROVE  BacklogTypeOK'
<1>1. pc' \in [Runners -> PCs] /\ pc'[p] = next
      /\ \A q \in Runners \ {p} : pc'[q] = pc[q]
  BY DEF Goto, BacklogTypeOK
<1>2. job' \in [Runners -> JobType] /\ job'[p] = j
      /\ \A q \in Runners \ {p} : job'[q] = job[q]
  BY DEF SetJob, BacklogTypeOK
<1> QED
  BY <1>1, <1>2 DEF BacklogTypeOK

\* So does one that returns or is killed.
LEMMA ReturnTyped ==
  ASSUME BacklogTypeOK, NEW p \in Runners, Return(p),
         reg' \in RegType, snap' \in [Runners -> RegType],
         life' \in [Runners -> [kills : Nat, mishaps : Nat]],
         approved' \subseteq Items
  PROVE  BacklogTypeOK'
<1>1. held' \in [Runners -> [Items -> Statuses]]
  BY InitRegTyped DEF Return, BacklogTypeOK, RegType
<1>2. "idle" \in PCs /\ "idle" \notin OnItem \cup WithState
  BY DEF PCs, OnItem, WithState
<1>3. Goto(p, "idle") /\ SetJob(p, NoJob)
  BY DEF Return, SetJob
<1> QED
  BY <1>1, <1>2, <1>3, NoJobTyped, GoesOnTyped

\* What a runner on an item knows of its locals.
LEMMA LocalsTyped ==
  ASSUME BacklogTypeOK, NEW p \in Runners
  PROVE  /\ pc[p] \in PCs /\ job[p] \in JobType /\ held[p] \in [Items -> Statuses]
         /\ pc[p] \in OnItem => job[p].item \in Items
         /\ pc[p] \in WithState => job[p].next \in BrokerStates
         /\ \A i \in Items : reg.rec[i] \in RecordType
BY DEF BacklogTypeOK, RegType

(***************************************************************************)
(* The steps of run_next, up to the claim of an item.                      *)
(***************************************************************************)

LEMMA StartTyped ==
  ASSUME BacklogTypeOK, NEW p \in Runners,
         Wake(p) \/ Resume(p) \/ Claim(p) \/ Inspect(p) \/ Recover(p) \/ Recovered(p)
  PROVE  BacklogTypeOK'
<1> USE LocalsTyped DEF Quiet
<1> reg \in RegType /\ snap \in [Runners -> RegType]
    /\ life \in [Runners -> [kills : Nat, mishaps : Nat]]
    /\ held \in [Runners -> [Items -> Statuses]]
    /\ approved \subseteq Items
  BY DEF BacklogTypeOK
<1>1. CASE Wake(p)
  <2>1. held' \in [Runners -> [Items -> Statuses]]
    BY <1>1 DEF Wake, RegType
  <2> QED
    BY <1>1, <2>1, GoesOnTyped DEF Wake, PCs, OnItem, WithState
<1>2. CASE Resume(p)
  <2>1. ASSUME NEW i \in Items
        PROVE  Resumed(i) \in JobType /\ Resumed(i).item = i
    <3>1. \A gate : Recalled(reg.rec[i], gate) \in Verdicts
      BY DEF Recalled, Verdicts, Answers, Decided
    <3>2. reg.rec[i].worker \in CodingWorkers
      BY <2>1 DEF RecordType
    <3>3. {"review", "final"} \subseteq Modes /\ {"candidate", "final"} \subseteq Stages
      BY DEF Modes, Stages
    <3> DEFINE m == IF reg.rec[i].phase = "review_pending" THEN "review" ELSE "final"
               g == IF reg.rec[i].phase = "review_pending" THEN "candidate" ELSE "final"
    <3>4. m \in Modes /\ g \in Stages
      BY <3>3
    <3>5. Resumed(i) =
            Resumption(i, reg.rec[i].worker, m, g, Recalled(reg.rec[i], "result"),
                       Recalled(reg.rec[i], "tests"), Recalled(reg.rec[i], "review"))
      BY DEF Resumed, Resumption
    <3> HIDE DEF m, g
    <3> QED
      BY <2>1, <3>1, <3>2, <3>4, <3>5, JobResumed
  <2>2. CASE Pending = {} /\ Goto(p, "claim") /\ UNCHANGED <<job, reg, held>>
    BY <1>2, <2>2, GoesOnTyped DEF Resume, PCs, OnItem, WithState
  <2>3. ASSUME NEW i \in Items, NEW next \in {"review", "final"},
               SetJob(p, Resumed(i)), Goto(p, next), UNCHANGED <<reg, held>>
        PROVE  BacklogTypeOK'
    <3>1. Resumed(i) \in JobType /\ Resumed(i).item \in Items
      BY <2>1
    <3>2. next \in PCs /\ next \notin WithState
      BY DEF PCs, OnItem, WithState
    <3>3. UNCHANGED <<reg, held, snap, life, approved>>
      BY <1>2, <2>3 DEF Resume
    <3> HIDE DEF Quiet
    <3> QED
      BY <2>3, <3>1, <3>2, <3>3, GoesOnTyped
  <2> QED
    BY <1>2, <2>2, <2>3 DEF Resume
<1>3. CASE Claim(p)
  <2>1. ASSUME NEW i \in Items, reg' = [reg EXCEPT !.items[i] = "in_progress"],
               held' = [held EXCEPT ![p] = reg'.items],
               SetJob(p, [NoJob EXCEPT !.item = i]), Goto(p, "route")
        PROVE  BacklogTypeOK'
    <3>1. reg' \in RegType /\ held' \in [Runners -> [Items -> Statuses]]
      BY <2>1 DEF RegType, Statuses
    <3>2. [NoJob EXCEPT !.item = i] \in JobType /\ [NoJob EXCEPT !.item = i].item = i
      BY JobClaimed
    <3>3. Quiet
      BY <1>3 DEF Claim
    <3>4. "route" \in PCs /\ "route" \notin WithState
      BY DEF PCs, WithState
    <3> DEFINE j == [NoJob EXCEPT !.item = i]
    <3>5. j \in JobType /\ j.item \in Items /\ SetJob(p, j)
      BY <2>1, <3>2
    <3> HIDE DEF j
    <3> QED
      BY <2>1, <3>1, <3>3, <3>4, <3>5, GoesOnTyped
  <2>2. CASE Goto(p, "inspect") /\ held' = [held EXCEPT ![p] = reg.items]
             /\ UNCHANGED <<reg, job>>
    <3>1. held' \in [Runners -> [Items -> Statuses]]
      BY <2>2 DEF RegType
    <3> QED
      BY <1>3, <2>2, <3>1, GoesOnTyped DEF Claim, PCs, OnItem, WithState
  <2>3. CASE Return(p) /\ UNCHANGED reg
    BY <1>3, <2>3, ReturnTyped DEF Claim
  <2> QED
    BY <1>3, <2>1, <2>2, <2>3 DEF Claim
<1>4. CASE Inspect(p)
  <2>1. ASSUME NEW i \in Items, SetJob(p, [NoJob EXCEPT !.item = i]),
               Goto(p, "recover"), UNCHANGED held
        PROVE  BacklogTypeOK'
    <3>1. [NoJob EXCEPT !.item = i] \in JobType /\ [NoJob EXCEPT !.item = i].item = i
      BY NoJobTyped DEF JobType
    <3> QED
      BY <1>4, <2>1, <3>1, GoesOnTyped DEF Inspect, PCs, OnItem, WithState
  <2>2. CASE Return(p)
    BY <1>4, <2>2, ReturnTyped DEF Inspect
  <2> QED
    BY <1>4, <2>1, <2>2 DEF Inspect
<1>5. CASE Recover(p)
  <2>1. job[p].item \in Items /\ reg' \in RegType
    BY <1>5, TransitionTyped DEF Recover, OnItem, Statuses
  <2> QED
    BY <1>5, <2>1, GoesOnTyped DEF Recover, PCs, OnItem, WithState
<1>6. CASE Recovered(p)
  <2>1. job[p].item \in Items /\ reg' \in RegType
    BY <1>6, CheckpointTyped DEF Recovered, OnItem, Phases
  <2> QED
    BY <1>6, <2>1, ReturnTyped DEF Recovered
<1> QED
  BY <1>1, <1>2, <1>3, <1>4, <1>5, <1>6

(***************************************************************************)
(* Routing, and the rounds of the broker's registry.                       *)
(***************************************************************************)

LEMMA StateTyped ==
  ASSUME reg \in RegType, NEW i \in Items
  PROVE  StateOf(i) \in BrokerStates \cup {NoState}
         /\ (IsCurrent(i) => reg.current \in BrokerStates)
BY DEF StateOf, IsCurrent, RegType

LEMMA AppliedTyped ==
  ASSUME NEW r \in RegType, NEW round, NEW state \in BrokerStates
  PROVE  Applied(r, round, state) \in RegType /\ Applied(r, round, state).items = r.items
<1>1. state.item \in Items
  BY DEF BrokerStates
<1> QED
  BY <1>1 DEF Applied, RegType

LEMMA RoutingTyped ==
  ASSUME BacklogTypeOK, NEW p \in Runners,
         Route(p) \/ Load(p) \/ Save(p) \/ Dispatch(p) \/ Request(p) \/ Block(p)
  PROVE  BacklogTypeOK'
<1> USE LocalsTyped DEF Quiet
<1> reg \in RegType /\ snap \in [Runners -> RegType]
    /\ life \in [Runners -> [kills : Nat, mishaps : Nat]]
    /\ held \in [Runners -> [Items -> Statuses]]
    /\ approved \subseteq Items
  BY DEF BacklogTypeOK
<1>1. CASE Route(p)
  <2> DEFINE i == job[p].item
             fresh == [item |-> i, worker |-> FirstWorker(ClassOf[i]), attempt |-> 1]
  <2>1. i \in Items
    BY <1>1 DEF Route, OnItem
  <2>2. CASE IsCurrent(i) /\ SetJob(p, [job[p] EXCEPT !.worker = reg.current.worker])
             /\ Goto(p, "dispatch")
    <3>1. reg.current.worker \in CodingWorkers
      BY <2>1, <2>2, StateTyped DEF BrokerStates
    <3>2. [job[p] EXCEPT !.worker = reg.current.worker] \in JobType
          /\ [job[p] EXCEPT !.worker = reg.current.worker].item = i
      BY <3>1 DEF JobType
    <3> HIDE DEF i
    <3> QED
      BY <1>1, <2>1, <2>2, <3>2, GoesOnTyped DEF Route, PCs, OnItem, WithState
  <2>3. CASE SetJob(p, [job[p] EXCEPT !.worker = fresh.worker, !.next = fresh,
                                      !.round = "current"])
             /\ Goto(p, "load")
    <3>1. fresh \in BrokerStates /\ fresh.worker \in CodingWorkers
      BY <2>1, WorkersTyped, EscalationAssumption DEF BrokerStates, Attempts
    <3> HIDE DEF fresh, i
    <3> DEFINE j == [job[p] EXCEPT !.worker = fresh.worker, !.next = fresh,
                                   !.round = "current"]
    <3>2. j \in JobType /\ j.item = job[p].item /\ j.next = fresh
      BY <3>1 DEF JobType, Rounds
    <3> HIDE DEF j
    <3>3. SetJob(p, j)
      BY <2>3 DEF j
    <3> QED
      BY <1>1, <2>1, <2>3, <3>1, <3>2, <3>3, GoesOnTyped DEF Route, PCs, OnItem, WithState, i
  <2> QED
    BY <1>1, <2>2, <2>3 DEF Route
<1>2. CASE Load(p)
  BY <1>2, GoesOnTyped DEF Load, PCs, OnItem, WithState
<1>3. CASE Save(p)
  <2>1. job[p].next \in BrokerStates /\ job[p].item \in Items
    BY <1>3 DEF Save, OnItem, WithState
  <2>2. reg' \in RegType
    BY <1>3, <2>1, AppliedTyped DEF Save
  <2>3. snap' \in [Runners -> RegType]
    BY <1>3, InitRegTyped DEF Save
  <2>4. CASE Goto(p, "load")
             /\ SetJob(p, [job[p] EXCEPT !.round = IF @ = "note" THEN "current" ELSE "history"])
    <3> DEFINE j == [job[p] EXCEPT !.round = IF @ = "note" THEN "current" ELSE "history"]
    <3>1. j \in JobType /\ j.item = job[p].item /\ j.next = job[p].next
      BY DEF JobType, Rounds
    <3>2. SetJob(p, j)
      BY <2>4
    <3> HIDE DEF j
    <3> QED
      BY <1>3, <2>1, <2>2, <2>3, <2>4, <3>1, <3>2, GoesOnTyped DEF Save, PCs, OnItem, WithState
  <2>5. ASSUME NEW next \in {"dispatch", "recorded"}, Goto(p, next), UNCHANGED job
        PROVE  BacklogTypeOK'
    BY <1>3, <2>1, <2>2, <2>3, <2>5, GoesOnTyped DEF Save, PCs, OnItem, WithState
  <2> QED
    BY <1>3, <2>4, <2>5 DEF Save
<1>4. CASE Dispatch(p)
  <2>1. job[p].item \in Items /\ reg' \in RegType
    BY <1>4 DEF Dispatch, OnItem, RegType, JobType
  <2> QED
    BY <1>4, <2>1, GoesOnTyped DEF Dispatch, PCs, OnItem, WithState
<1>5. CASE Request(p)
  <2> DEFINE j == [job[p] EXCEPT !.worker = reg.selected, !.stage = "candidate"]
  <2>1. job[p].item \in Items /\ reg.selected \in CodingWorkers
    BY <1>5 DEF Request, OnItem, RegType
  <2>2. j \in JobType /\ j.item = job[p].item
    BY <2>1 DEF JobType, Stages
  <2>3. SetJob(p, j)
    BY <1>5 DEF Request
  <2> HIDE DEF j
  <2> QED
    BY <1>5, <2>1, <2>2, <2>3, GoesOnTyped DEF Request, PCs, OnItem, WithState
<1>6. CASE Block(p)
  <2>1. job[p].item \in Items /\ reg' \in RegType
    BY <1>6, TransitionTyped DEF Block, OnItem, Statuses
  <2> QED
    BY <1>6, <2>1, ReturnTyped DEF Block
<1> QED
  BY <1>1, <1>2, <1>3, <1>4, <1>5, <1>6

(***************************************************************************)
(* The worker and the gates.                                               *)
(***************************************************************************)

LEMMA AttemptTyped ==
  ASSUME BacklogTypeOK, NEW p \in Runners,
         Begin(p) \/ Execute(p) \/ Test(p) \/ SelfReview(p)
  PROVE  BacklogTypeOK'
<1> USE LocalsTyped DEF Quiet
<1> reg \in RegType /\ snap \in [Runners -> RegType]
    /\ life \in [Runners -> [kills : Nat, mishaps : Nat]]
    /\ held \in [Runners -> [Items -> Statuses]]
    /\ approved \subseteq Items
  BY DEF BacklogTypeOK
<1>1. CASE Begin(p)
  <2> DEFINE i == job[p].item
             r == [reg.rec[i] EXCEPT !.worker = job[p].worker, !.owner = <<p, life[p].kills>>]
  <2>1. i \in Items /\ job[p].worker \in CodingWorkers /\ life[p].kills \in Nat
    BY <1>1 DEF Begin, OnItem, JobType
  <2>2. r \in RecordType
    BY <2>1, RecordBegun
  <2>3. Checkpoint(i, "executing", r)
    BY <1>1 DEF Begin
  <2> HIDE DEF r
  <2>4. reg' \in RegType
    BY <2>1, <2>2, <2>3, CheckpointTyped DEF Phases
  <2> QED
    BY <1>1, <2>1, <2>4, GoesOnTyped DEF Begin, PCs, OnItem, WithState
<1>2. CASE Execute(p)
  <2> DEFINE i == job[p].item
  <2>1. i \in Items
    BY <1>2 DEF Execute, OnItem
  <2>2. PICK result \in Decided, class \in {"substantive", "operational"} :
          /\ SetJob(p, [job[p] EXCEPT !.result = result, !.class = class])
          /\ Checkpoint(i, "worker_complete", WithResult(reg.rec[i], "result", result))
    BY <1>2 DEF Execute
  <2>3. reg' \in RegType
    BY <2>1, <2>2, ResultTyped, CheckpointTyped DEF Phases, Gates
  <2> DEFINE j == [job[p] EXCEPT !.result = result, !.class = class]
  <2>4. j \in JobType /\ j.item = i
    <3>1. j = Graded(job[p], result, class)
      BY DEF Graded
    <3> HIDE DEF j
    <3> QED
      BY <2>2, <3>1, GradedTyped
  <2>5. SetJob(p, j)
    BY <2>2
  <2> HIDE DEF j
  <2> QED
    BY <1>2, <2>1, <2>3, <2>4, <2>5, GoesOnTyped DEF Execute, PCs, OnItem, WithState
<1>3. CASE Test(p)
  <2> DEFINE i == job[p].item
  <2>1. i \in Items
    BY <1>3 DEF Test, OnItem
  <2>2. PICK verdict \in Decided :
          /\ SetJob(p, [job[p] EXCEPT !.tests = verdict])
          /\ Checkpoint(i, "tests_complete", WithResult(reg.rec[i], "tests", verdict))
          /\ Goto(p, "self_review") \/ Goto(p, "review")
    BY <1>3 DEF Test
  <2>3. reg' \in RegType
    BY <2>1, <2>2, ResultTyped, CheckpointTyped DEF Phases, Gates
  <2> DEFINE j == [job[p] EXCEPT !.tests = verdict]
  <2>4. j \in JobType /\ j.item = i
    <3>1. j = Tried(job[p], verdict)
      BY DEF Tried
    <3> HIDE DEF j
    <3> QED
      BY <2>2, <3>1, TriedTyped
  <2>5. SetJob(p, j)
    BY <2>2
  <2> HIDE DEF j
  <2> QED
    BY <1>3, <2>1, <2>2, <2>3, <2>4, <2>5, GoesOnTyped DEF Test, PCs, OnItem, WithState
<1>4. CASE SelfReview(p)
  <2> DEFINE i == job[p].item
             j == [job[p] EXCEPT !.result = "rejected", !.class = "substantive",
                                 !.review = "rejected"]
  <2>1. i \in Items /\ reg' \in RegType
    BY <1>4, CheckpointTyped DEF SelfReview, OnItem, Phases
  <2>2. j \in JobType /\ j.item = i
    <3>1. j = Refused(job[p])
      BY DEF Refused
    <3> HIDE DEF j
    <3> QED
      BY <3>1, RefusedTyped
  <2>3. SetJob(p, j) \/ UNCHANGED job
    BY <1>4 DEF SelfReview
  <2> HIDE DEF j
  <2>4. CASE SetJob(p, j)
    BY <1>4, <2>1, <2>2, <2>4, GoesOnTyped DEF SelfReview, PCs, OnItem, WithState
  <2>5. CASE UNCHANGED job
    BY <1>4, <2>1, <2>5, GoesOnTyped DEF SelfReview, PCs, OnItem, WithState
  <2> QED
    BY <2>3, <2>4, <2>5
<1> QED
  BY <1>1, <1>2, <1>3, <1>4

LEMMA ReviewTyped ==
  ASSUME BacklogTypeOK, NEW p \in Runners,
         Review(p) \/ Suspend(p) \/ Suspended(p) \/ ReviewAgain(p)
  PROVE  BacklogTypeOK'
<1> USE LocalsTyped DEF Quiet
<1> reg \in RegType /\ snap \in [Runners -> RegType]
    /\ life \in [Runners -> [kills : Nat, mishaps : Nat]]
    /\ held \in [Runners -> [Items -> Statuses]]
    /\ approved \subseteq Items
  BY DEF BacklogTypeOK
<1>1. CASE Review(p)
  <2> DEFINE i == job[p].item
  <2>1. i \in Items
    BY <1>1 DEF Review, OnItem
  <2>2. PICK verdict \in Answers :
          /\ SetJob(p, [job[p] EXCEPT !.review = verdict])
          /\ Checkpoint(i, "review_complete", WithResult(reg.rec[i], "review", verdict))
          /\ \E next \in {"suspend", "final", "record"} : Goto(p, next)
    BY <1>1 DEF Review
  <2>3. reg' \in RegType
    BY <2>1, <2>2, ResultTyped, CheckpointTyped DEF Phases, Gates
  <2> DEFINE j == [job[p] EXCEPT !.review = verdict]
  <2>4. j \in JobType /\ j.item = i
    BY DEF JobType, Verdicts
  <2>5. SetJob(p, j)
    BY <2>2
  <2> HIDE DEF j
  <2> QED
    BY <1>1, <2>1, <2>2, <2>3, <2>4, <2>5, GoesOnTyped DEF Review, PCs, OnItem, WithState
<1>2. CASE Suspend(p)
  <2>1. job[p].item \in Items /\ reg' \in RegType
    BY <1>2, TransitionTyped DEF Suspend, OnItem, Statuses
  <2> QED
    BY <1>2, <2>1, GoesOnTyped DEF Suspend, PCs, OnItem, WithState
<1>3. CASE Suspended(p)
  <2> DEFINE j == job[p]
             r == [reg.rec[j.item] EXCEPT !.worker = j.worker, !.passed = Passes(j, @)]
  <2>1. j.item \in Items /\ j.worker \in CodingWorkers
    BY <1>3 DEF Suspended, OnItem, JobType
  <2>2. r \in RecordType
    BY <2>1, KeptTyped
  <2>3. Checkpoint(j.item, "review_pending", r)
    BY <1>3 DEF Suspended
  <2> HIDE DEF r
  <2>4. reg' \in RegType
    BY <2>1, <2>2, <2>3, CheckpointTyped DEF Phases, PendingPhases
  <2> QED
    BY <1>3, <2>4, ReturnTyped DEF Suspended
<1>4. CASE ReviewAgain(p)
  <2> DEFINE i == job[p].item
  <2>1. i \in Items
    BY <1>4 DEF ReviewAgain, OnItem
  <2>2. PICK verdict \in Answers :
          /\ Checkpoint(i, "review_pending", WithResult(reg.rec[i], "review", verdict))
          /\ \/ Return(p)
             \/ /\ SetJob(p, [job[p] EXCEPT !.review = verdict])
                /\ Goto(p, "record")
                /\ UNCHANGED held
    BY <1>4 DEF ReviewAgain
  <2>3. reg' \in RegType
    BY <2>1, <2>2, ResultTyped, CheckpointTyped DEF Phases, PendingPhases, Gates
  <2> DEFINE j == [job[p] EXCEPT !.review = verdict]
  <2>4. j \in JobType /\ j.item = i
    BY DEF JobType, Verdicts
  <2>6. CASE Return(p)
    BY <1>4, <2>3, <2>6, ReturnTyped DEF ReviewAgain
  <2>7. CASE SetJob(p, j) /\ Goto(p, "record") /\ UNCHANGED held
    <3> HIDE DEF j
    <3> QED
      BY <1>4, <2>1, <2>3, <2>4, <2>7, GoesOnTyped DEF ReviewAgain, PCs, OnItem, WithState
  <2> QED
    BY <2>2, <2>6, <2>7
<1> QED
  BY <1>1, <1>2, <1>3, <1>4

LEMMA FinalTyped ==
  ASSUME BacklogTypeOK, NEW p \in Runners, Final(p) \/ Keep(p)
  PROVE  BacklogTypeOK'
<1> USE LocalsTyped DEF Quiet
<1> reg \in RegType /\ snap \in [Runners -> RegType]
    /\ life \in [Runners -> [kills : Nat, mishaps : Nat]]
    /\ held \in [Runners -> [Items -> Statuses]]
    /\ approved \subseteq Items
  BY DEF BacklogTypeOK
<1>1. CASE Final(p)
  <2> DEFINE i == job[p].item
  <2>1. i \in Items
    BY <1>1 DEF Final, OnItem
  <2>2. PICK verdict \in Answers :
          LET jf == [job[p] EXCEPT !.final = verdict] IN
          /\ Checkpoint(i, FinalPhase(jf.mode), WithResult(reg.rec[i], "final", verdict))
          /\ approved' = IF verdict = "passed" THEN approved \cup {i} ELSE approved
          /\ \/ /\ jf.mode = "final" /\ Unverified(jf)
                /\ Return(p)
             \/ /\ jf.mode = "review" /\ Unverified(jf)
                /\ SetJob(p, jf) /\ Goto(p, "keep")
                /\ UNCHANGED held
             \/ /\ jf.mode = "run" \/ ~Unverified(jf)
                /\ SetJob(p, jf) /\ Goto(p, "record")
                /\ UNCHANGED held
    BY <1>1 DEF Final
  <2>3. \A mode : FinalPhase(mode) \in Phases
    BY DEF FinalPhase, Phases, PendingPhases
  <2>4. reg' \in RegType
    BY <2>1, <2>2, <2>3, ResultTyped, CheckpointTyped DEF Gates
  <2> DEFINE j == [job[p] EXCEPT !.final = verdict]
  <2>5. j \in JobType /\ j.item = i
    BY DEF JobType, Verdicts
  <2>6. approved' \subseteq Items
    BY <2>1, <2>2
  <2>7. CASE Return(p)
    BY <1>1, <2>4, <2>6, <2>7, ReturnTyped DEF Final
  <2>8. CASE SetJob(p, j) /\ (Goto(p, "keep") \/ Goto(p, "record")) /\ UNCHANGED held
    <3> HIDE DEF j
    <3> QED
      BY <1>1, <2>1, <2>4, <2>5, <2>6, <2>8, GoesOnTyped DEF Final, PCs, OnItem, WithState
  <2> QED
    BY <2>2, <2>7, <2>8
<1>2. CASE Keep(p)
  <2> DEFINE r == [reg.rec[job[p].item] EXCEPT !.worker = job[p].worker,
                                               !.passed = Passes(job[p], @)]
             j == [job[p] EXCEPT !.stage = "final"]
  <2>1. job[p].item \in Items /\ job[p].worker \in CodingWorkers
    BY <1>2 DEF Keep, OnItem, JobType
  <2>2. r \in RecordType
    BY <2>1, KeptTyped
  <2>3. Checkpoint(job[p].item, "final_verification_pending", r)
    BY <1>2 DEF Keep
  <2> HIDE DEF r
  <2>4. reg' \in RegType
    BY <2>1, <2>2, <2>3, CheckpointTyped DEF Phases, PendingPhases
  <2>5. j \in JobType /\ j.item = job[p].item
    BY DEF JobType, Stages
  <2>6. \/ SetJob(p, j) /\ Goto(p, "final") /\ UNCHANGED held
        \/ Return(p)
    BY <1>2 DEF Keep
  <2> HIDE DEF j
  <2> QED
    BY <1>2, <2>1, <2>4, <2>5, <2>6, ReturnTyped, GoesOnTyped DEF Keep, PCs, OnItem, WithState
<1> QED
  BY <1>1, <1>2

(***************************************************************************)
(* The record of an attempt and its outcome.                               *)
(***************************************************************************)

LEMMA OutcomeTyped ==
  ASSUME BacklogTypeOK, NEW p \in Runners,
         Record(p) \/ Recorded(p) \/ Settle(p) \/ Settled(p)
  PROVE  BacklogTypeOK'
<1> USE LocalsTyped DEF Quiet
<1> reg \in RegType /\ snap \in [Runners -> RegType]
    /\ life \in [Runners -> [kills : Nat, mishaps : Nat]]
    /\ held \in [Runners -> [Items -> Statuses]]
    /\ approved \subseteq Items
  BY DEF BacklogTypeOK
<1>1. CASE Record(p)
  <2> DEFINE state == StateOf(job[p].item)
  <2>1. job[p].item \in Items /\ state \in BrokerStates
    BY <1>1, StateTyped DEF Record, OnItem
  <2>2. PICK trigger \in ReviewTriggers :
          LET n == NextAttempt(state.attempt)
              worker == NextWorker(Reported(job[p]), trigger, n)
          IN  SetJob(p, [job[p] EXCEPT
                !.next = [item |-> job[p].item, worker |-> worker, attempt |-> n],
                !.round = IF worker = state.worker THEN "current" ELSE "note"])
    BY <1>1 DEF Record
  <2> DEFINE n == NextAttempt(state.attempt)
             worker == NextWorker(Reported(job[p]), trigger, n)
             next == [item |-> job[p].item, worker |-> worker, attempt |-> n]
             round == IF worker = state.worker THEN "current" ELSE "note"
             j == [job[p] EXCEPT !.next = next, !.round = round]
  <2>3. n \in Attempts
    BY <2>1, NextAttemptTyped DEF BrokerStates
  <2>4. worker \in CodingWorkers
    BY WorkersTyped
  <2>5. next \in BrokerStates
    BY <2>1, <2>3, <2>4 DEF BrokerStates
  <2>6. round \in Rounds
    BY DEF Rounds
  <2>7. SetJob(p, j)
    BY <2>2
  <2> HIDE DEF next, round
  <2>8. j \in JobType /\ j.item = job[p].item /\ j.next = next
    BY <2>5, <2>6 DEF JobType
  <2> HIDE DEF j
  <2> QED
    BY <1>1, <2>1, <2>5, <2>7, <2>8, GoesOnTyped DEF Record, PCs, OnItem, WithState
<1>2. CASE Recorded(p)
  <2>1. job[p].item \in Items /\ job[p].next.worker \in CodingWorkers
    BY <1>2 DEF Recorded, OnItem, WithState, BrokerStates
  <2>2. reg' \in RegType
    BY <1>2, <2>1 DEF Recorded, RegType
  <2> DEFINE j == [job[p] EXCEPT !.stage = "final"]
  <2>3. j \in JobType /\ j.item = job[p].item
    BY DEF JobType, Stages
  <2>4. CASE SetJob(p, j) /\ Goto(p, "record")
    <3> HIDE DEF j
    <3> QED
      BY <1>2, <2>1, <2>2, <2>3, <2>4, GoesOnTyped DEF Recorded, PCs, OnItem, WithState
  <2>5. ASSUME NEW next \in {"keep", "settle"}, Goto(p, next), UNCHANGED job
        PROVE  BacklogTypeOK'
    BY <1>2, <2>1, <2>2, <2>5, GoesOnTyped DEF Recorded, PCs, OnItem, WithState
  <2> QED
    BY <1>2, <2>4, <2>5 DEF Recorded
<1>3. CASE Settle(p)
  <2>1. job[p].item \in Items
    BY <1>3 DEF Settle, OnItem
  <2>2. PICK s \in Outcomes(job[p]) :
          Transition(p, job[p].item, s) /\ SetJob(p, [job[p] EXCEPT !.status = s])
    BY <1>3 DEF Settle
  <2>3. s \in Statuses \ {"in_progress"}
    BY <2>2 DEF Outcomes, Statuses
  <2>4. reg' \in RegType
    BY <2>1, <2>2, <2>3, TransitionTyped
  <2> DEFINE j == [job[p] EXCEPT !.status = s]
  <2>5. j \in JobType /\ j.item = job[p].item
    BY <2>3 DEF JobType
  <2>6. SetJob(p, j)
    BY <2>2
  <2> HIDE DEF j
  <2> QED
    BY <1>3, <2>1, <2>4, <2>5, <2>6, GoesOnTyped DEF Settle, PCs, OnItem, WithState
<1>4. CASE Settled(p)
  <2>1. job[p].item \in Items
    BY <1>4 DEF Settled, OnItem
  <2>2. job[p].status \in Statuses \ {"in_progress"}
    BY DEF JobType
  <2>3. LastPhase(job[p]) \in Phases
    BY <2>2 DEF LastPhase, Statuses, Phases, PendingPhases
  <2> QED
    BY <1>4, <2>1, <2>3, ReturnTyped, CheckpointTyped DEF Settled
<1> QED
  BY <1>1, <1>2, <1>3, <1>4

(***************************************************************************)
(* Exceptions and kills.                                                   *)
(***************************************************************************)

LEMMA HandleTyped ==
  ASSUME BacklogTypeOK, NEW p \in Runners, Handle(p)
  PROVE  BacklogTypeOK'
<1> USE LocalsTyped DEF Quiet
<1> reg \in RegType /\ snap \in [Runners -> RegType]
    /\ life \in [Runners -> [kills : Nat, mishaps : Nat]]
    /\ held \in [Runners -> [Items -> Statuses]]
    /\ approved \subseteq Items
  BY DEF BacklogTypeOK
<1>1. CASE Return(p) /\ UNCHANGED reg
  BY <1>1, ReturnTyped DEF Handle
<1>2. ASSUME NEW i \in Items,
             SetJob(p, [NoJob EXCEPT !.mode = "exception", !.stage = "candidate",
                                     !.item = i, !.worker = reg.rec[i].worker]),
             held' = [held EXCEPT ![p] = reg.items], Goto(p, "record"), UNCHANGED reg
      PROVE  BacklogTypeOK'
  <2> DEFINE j == [NoJob EXCEPT !.mode = "exception", !.stage = "candidate",
                                !.item = i, !.worker = reg.rec[i].worker]
  <2>1. reg.rec[i].worker \in CodingWorkers
    BY <1>2 DEF RecordType
  <2>2. j \in JobType /\ j.item = i
    BY <2>1, JobBegun
  <2>3. held' \in [Runners -> [Items -> Statuses]]
    BY <1>2 DEF RegType
  <2>4. SetJob(p, j)
    BY <1>2
  <2>5. Quiet
    BY DEF Handle
  <2>6. "record" \in PCs /\ "record" \notin WithState
    BY DEF PCs, WithState
  <2> HIDE DEF j
  <2> QED
    BY <1>2, <2>2, <2>3, <2>4, <2>5, <2>6, GoesOnTyped
<1> QED
  BY <1>1, <1>2 DEF Handle

\* Where a call raises, the runner goes on with locals it has, or gives up.
LEMMA FailTyped ==
  ASSUME BacklogTypeOK, NEW p \in Runners, Fail(p),
         life' \in [Runners -> [kills : Nat, mishaps : Nat]]
  PROVE  BacklogTypeOK'
<1> USE LocalsTyped
<1> reg \in RegType /\ snap \in [Runners -> RegType]
    /\ held \in [Runners -> [Items -> Statuses]]
    /\ approved \subseteq Items
  BY DEF BacklogTypeOK
<1>1. snap' \in [Runners -> RegType] /\ UNCHANGED <<reg, approved>>
  BY InitRegTyped DEF Fail
<1>2. CASE /\ pc[p] \in {"route", "load", "save"} /\ Goto(p, "dispatch") /\ UNCHANGED held
           /\ SetJob(p, [job[p] EXCEPT !.worker = "p40"])
  <2> DEFINE j == [job[p] EXCEPT !.worker = "p40"]
  <2>1. j \in JobType /\ j.item = job[p].item
    <3>1. j = Given(job[p], "p40") /\ "p40" \in CodingWorkers
      BY DEF Given, CodingWorkers, P40Models
    <3> HIDE DEF j
    <3> QED
      BY <3>1, GivenTyped
  <2>2. SetJob(p, j)
    BY <1>2
  <2> HIDE DEF j
  <2> QED
    BY <1>1, <1>2, <2>1, <2>2, GoesOnTyped DEF PCs, OnItem, WithState
<1>3. CASE pc[p] = "dispatch" /\ Goto(p, "block") /\ UNCHANGED <<job, held>>
  BY <1>1, <1>3, GoesOnTyped DEF PCs, OnItem, WithState
<1>4. CASE /\ pc[p] \in Recording /\ Goto(p, "settle") /\ UNCHANGED held
           /\ SetJob(p, [job[p] EXCEPT !.stage = "unrecorded"])
  <2> DEFINE j == [job[p] EXCEPT !.stage = "unrecorded"]
  <2>1. j \in JobType /\ j.item = job[p].item
    <3>1. j = Staged(job[p], "unrecorded") /\ "unrecorded" \in Stages
      BY DEF Staged, Stages
    <3> HIDE DEF j
    <3> QED
      BY <3>1, StagedTyped
  <2>2. SetJob(p, j)
    BY <1>4
  <2> HIDE DEF j
  <2> QED
    BY <1>1, <1>4, <2>1, <2>2, GoesOnTyped DEF Recording, PCs, OnItem, WithState
<1>5. CASE Return(p)
  BY <1>1, <1>5, ReturnTyped
<1>6. CASE /\ SetJob(p, NoJob) /\ Goto(p, "handle")
           /\ held' = [held EXCEPT ![p] = InitReg.items]
  <2>1. held' \in [Runners -> [Items -> Statuses]]
    BY <1>6, InitRegTyped DEF RegType
  <2> QED
    BY <1>1, <1>6, <2>1, NoJobTyped, GoesOnTyped DEF PCs, OnItem, WithState
<1> QED
  BY <1>2, <1>3, <1>4, <1>5, <1>6 DEF Fail

LEMMA MishapTyped ==
  ASSUME BacklogTypeOK, NEW p \in Runners, RecordUnknown(p) \/ Raise(p) \/ Kill(p)
  PROVE  BacklogTypeOK'
<1>1. life' \in [Runners -> [kills : Nat, mishaps : Nat]]
  BY DEF RecordUnknown, Raise, Kill, BacklogTypeOK
<1>2. CASE RecordUnknown(p) \/ Raise(p)
  BY <1>1, <1>2, FailTyped DEF RecordUnknown, Raise
<1>3. CASE Kill(p)
  <2>1. reg' \in RegType /\ snap' \in [Runners -> RegType]
        /\ approved' \subseteq Items
    BY <1>3, InitRegTyped DEF Kill, BacklogTypeOK
  <2> QED
    BY <1>1, <1>3, <2>1, ReturnTyped DEF Kill
<1> QED
  BY <1>2, <1>3

LEMMA InitTyped == Init => BacklogTypeOK
<1> SUFFICES ASSUME Init PROVE BacklogTypeOK
  OBVIOUS
<1>1. reg \in RegType /\ snap \in [Runners -> RegType]
      /\ held \in [Runners -> [Items -> Statuses]]
  BY InitRegTyped DEF Init, RegType
<1>2. job \in [Runners -> JobType]
  BY NoJobTyped DEF Init
<1> QED
  BY <1>1, <1>2 DEF Init, BacklogTypeOK, PCs, OnItem, WithState

LEMMA NextTyped == BacklogTypeOK /\ [Next]_vars => BacklogTypeOK'
<1> SUFFICES ASSUME BacklogTypeOK, [Next]_vars
             PROVE  BacklogTypeOK'
  OBVIOUS
<1>1. ASSUME NEW p \in Runners, Step(p)
      PROVE  BacklogTypeOK'
  BY <1>1, StartTyped, RoutingTyped, AttemptTyped, ReviewTyped, FinalTyped, OutcomeTyped,
     HandleTyped, MishapTyped DEF Step
<1>2. ASSUME NEW p \in Runners, Raise(p) \/ Kill(p)
      PROVE  BacklogTypeOK'
  BY <1>2, MishapTyped
<1>3. CASE UNCHANGED vars
  BY <1>3 DEF vars, BacklogTypeOK
<1> QED
  BY <1>1, <1>2, <1>3 DEF Next

\* The file and the locals stay well formed: no path of run_next, its
\* exceptions included, uses a local it has not set.
THEOREM BacklogTypeCorrect == Spec => []BacklogTypeOK
  BY InitTyped, NextTyped, PTL DEF Spec

(***************************************************************************)
(* Completed items are verified.  By itself this is not inductive: a       *)
(* runner writes the lists of items and the registry it has read before,   *)
(* and completes an item on the verdict in its locals.  What they say must *)
(* be true as well, and stays so because a verification is not undone.     *)
(***************************************************************************)

OnlyVerified(items, V) == \A i \in Items : items[i] = "completed" => i \in V

VerdictTrue(j, V) == j.final = "passed" => j.item \in V

Verified ==
  /\ OnlyVerified(reg.items, approved)
  /\ \A p \in Runners :
       /\ OnlyVerified(held[p], approved)
       /\ OnlyVerified(snap[p].items, approved)
       /\ VerdictTrue(job[p], approved)

\* A step of one runner: what it writes is true where it writes it.
LEMMA StepVerified ==
  ASSUME BacklogTypeOK, Verified, NEW p \in Runners, NEW items, NEW r, NEW j,
         approved \subseteq approved',
         OnlyVerified(reg'.items, approved'),
         held' = [held EXCEPT ![p] = items] \/ UNCHANGED held,
         held' = held \/ OnlyVerified(items, approved'),
         snap' = [snap EXCEPT ![p] = r] \/ UNCHANGED snap,
         snap' = snap \/ OnlyVerified(r.items, approved'),
         SetJob(p, j) \/ UNCHANGED job,
         job' = job \/ VerdictTrue(j, approved')
  PROVE  Verified'
<1>1. \A q \in Runners : OnlyVerified(held'[q], approved')
  BY DEF Verified, OnlyVerified, BacklogTypeOK
<1>2. \A q \in Runners : OnlyVerified(snap'[q].items, approved')
  BY DEF Verified, OnlyVerified, BacklogTypeOK
<1>3. \A q \in Runners : VerdictTrue(job'[q], approved')
  BY DEF Verified, VerdictTrue, BacklogTypeOK, SetJob
<1> QED
  BY <1>1, <1>2, <1>3 DEF Verified

\* What a runner finds to be true.
LEMMA LocalsVerified ==
  ASSUME Verified, NEW p \in Runners
  PROVE  /\ OnlyVerified(reg.items, approved) /\ OnlyVerified(held[p], approved)
         /\ OnlyVerified(snap[p].items, approved) /\ VerdictTrue(job[p], approved)
         /\ OnlyVerified(InitReg.items, approved) /\ VerdictTrue(NoJob, approved)
BY NoJobTyped, InitRegTyped DEF Verified, OnlyVerified, VerdictTrue

\* A return gives the locals up.
LEMMA ReturnVerified ==
  ASSUME BacklogTypeOK, Verified, NEW p \in Runners, Return(p), UNCHANGED snap,
         approved \subseteq approved', OnlyVerified(reg'.items, approved')
  PROVE  Verified'
<1>1. SetJob(p, NoJob) /\ held' = [held EXCEPT ![p] = InitReg.items]
  BY DEF Return, SetJob
<1>2. VerdictTrue(NoJob, approved') /\ OnlyVerified(InitReg.items, approved')
  BY NoJobTyped, InitRegTyped DEF VerdictTrue, OnlyVerified
<1> QED
  BY <1>1, <1>2, StepVerified

\* So does a transition to anything but a completion.
LEMMA TransitionVerified ==
  ASSUME BacklogTypeOK, Verified, NEW p \in Runners, NEW i \in Items, NEW s \in Statuses,
         Transition(p, i, s), s = "completed" => i \in approved
  PROVE  OnlyVerified(reg'.items, approved)
<1>1. reg'.items = [held[p] EXCEPT ![i] = s] /\ held[p] \in [Items -> Statuses]
  BY TransitionTyped DEF BacklogTypeOK
<1> QED
  BY <1>1, LocalsVerified DEF OnlyVerified

LEMMA CheckpointKeeps ==
  ASSUME BacklogTypeOK, NEW i \in Items, NEW phase, NEW r, Checkpoint(i, phase, r)
  PROVE  reg'.items = reg.items
BY DEF Checkpoint, BacklogTypeOK, RegType

LEMMA StartVerified ==
  ASSUME BacklogTypeOK, Verified, NEW p \in Runners,
         Wake(p) \/ Resume(p) \/ Claim(p) \/ Inspect(p) \/ Recover(p) \/ Recovered(p)
  PROVE  Verified'
<1> USE LocalsTyped, LocalsVerified DEF Quiet
<1>1. CASE Wake(p)
  BY <1>1, StepVerified DEF Wake
<1>2. CASE Resume(p)
  <2>1. \A i : VerdictTrue(Resumed(i), approved)
    BY NoJobTyped DEF VerdictTrue, Resumed, JobType
  <2> QED
    BY <1>2, <2>1, StepVerified DEF Resume
<1>3. CASE Claim(p)
  <2>1. ASSUME NEW i \in Items, reg' = [reg EXCEPT !.items[i] = "in_progress"],
               held' = [held EXCEPT ![p] = reg'.items],
               SetJob(p, [NoJob EXCEPT !.item = i])
        PROVE  Verified'
    <3>1. OnlyVerified(reg'.items, approved)
      BY <2>1 DEF OnlyVerified, BacklogTypeOK, RegType
    <3>2. VerdictTrue([NoJob EXCEPT !.item = i], approved)
      BY NoJobTyped DEF VerdictTrue, JobType
    <3> QED
      BY <1>3, <2>1, <3>1, <3>2, StepVerified DEF Claim
  <2>2. CASE held' = [held EXCEPT ![p] = reg.items] /\ UNCHANGED <<reg, job>>
    BY <1>3, <2>2, StepVerified DEF Claim
  <2>3. CASE Return(p) /\ UNCHANGED reg
    BY <1>3, <2>3, ReturnVerified DEF Claim
  <2> QED
    BY <1>3, <2>1, <2>2, <2>3 DEF Claim
<1>4. CASE Inspect(p)
  <2>1. \A i : VerdictTrue([NoJob EXCEPT !.item = i], approved)
    BY NoJobTyped DEF VerdictTrue, JobType
  <2> QED
    BY <1>4, <2>1, StepVerified, ReturnVerified DEF Inspect
<1>5. CASE Recover(p)
  <2>1. OnlyVerified(reg'.items, approved)
    BY <1>5, TransitionVerified DEF Recover, OnItem, Statuses
  <2> QED
    BY <1>5, <2>1, StepVerified DEF Recover
<1>6. CASE Recovered(p)
  BY <1>6, CheckpointKeeps, ReturnVerified DEF Recovered, OnItem
<1> QED
  BY <1>1, <1>2, <1>3, <1>4, <1>5, <1>6

LEMMA RoutingVerified ==
  ASSUME BacklogTypeOK, Verified, NEW p \in Runners,
         Route(p) \/ Load(p) \/ Save(p) \/ Dispatch(p) \/ Request(p) \/ Block(p)
  PROVE  Verified'
<1> USE LocalsTyped, LocalsVerified DEF Quiet
<1>1. CASE Route(p)
  <2>1. \A w : VerdictTrue([job[p] EXCEPT !.worker = w], approved)
    BY DEF VerdictTrue, JobType
  <2>2. \A w, n : VerdictTrue([job[p] EXCEPT !.worker = w, !.next = n, !.round = "current"],
                              approved)
    BY DEF VerdictTrue, JobType
  <2> QED
    BY <1>1, <2>1, <2>2, StepVerified DEF Route
<1>2. CASE Load(p)
  BY <1>2, StepVerified DEF Load
<1>3. CASE Save(p)
  <2>1. job[p].next \in BrokerStates
    BY <1>3 DEF Save, WithState
  <2>2. OnlyVerified(reg'.items, approved)
    BY <1>3, <2>1, AppliedTyped DEF Save, BacklogTypeOK
  <2>3. VerdictTrue([job[p] EXCEPT !.round = IF @ = "note" THEN "current" ELSE "history"],
                    approved)
    BY DEF VerdictTrue, JobType
  <2> QED
    BY <1>3, <2>2, <2>3, StepVerified DEF Save
<1>4. CASE Dispatch(p)
  <2>1. reg'.items = reg.items
    BY <1>4 DEF Dispatch, BacklogTypeOK, RegType
  <2> QED
    BY <1>4, <2>1, StepVerified DEF Dispatch
<1>5. CASE Request(p)
  <2>1. VerdictTrue([job[p] EXCEPT !.worker = reg.selected, !.stage = "candidate"], approved)
    BY DEF VerdictTrue, JobType
  <2> QED
    BY <1>5, <2>1, StepVerified DEF Request
<1>6. CASE Block(p)
  <2>1. OnlyVerified(reg'.items, approved)
    BY <1>6, TransitionVerified DEF Block, OnItem, Statuses
  <2> QED
    BY <1>6, <2>1, ReturnVerified DEF Block
<1> QED
  BY <1>1, <1>2, <1>3, <1>4, <1>5, <1>6

LEMMA AttemptVerified ==
  ASSUME BacklogTypeOK, Verified, NEW p \in Runners,
         Begin(p) \/ Execute(p) \/ Test(p) \/ SelfReview(p)
  PROVE  Verified'
<1> USE LocalsTyped, LocalsVerified, CheckpointKeeps DEF Quiet
<1>1. CASE Begin(p)
  <2>1. reg'.items = reg.items
    BY <1>1 DEF Begin, OnItem
  <2> QED
    BY <1>1, <2>1, StepVerified DEF Begin
<1>2. CASE Execute(p)
  <2>1. \A v, c : VerdictTrue([job[p] EXCEPT !.result = v, !.class = c], approved)
    BY DEF VerdictTrue, JobType
  <2>2. reg'.items = reg.items
    BY <1>2 DEF Execute, OnItem
  <2> QED
    BY <1>2, <2>1, <2>2, StepVerified DEF Execute
<1>3. CASE Test(p)
  <2>1. \A v : VerdictTrue([job[p] EXCEPT !.tests = v], approved)
    BY DEF VerdictTrue, JobType
  <2>2. reg'.items = reg.items
    BY <1>3 DEF Test, OnItem
  <2> QED
    BY <1>3, <2>1, <2>2, StepVerified DEF Test
<1>4. CASE SelfReview(p)
  <2>1. VerdictTrue([job[p] EXCEPT !.result = "rejected", !.class = "substantive",
                                   !.review = "rejected"], approved)
    BY DEF VerdictTrue, JobType
  <2>2. reg'.items = reg.items
    BY <1>4 DEF SelfReview, OnItem
  <2> QED
    BY <1>4, <2>1, <2>2, StepVerified DEF SelfReview
<1> QED
  BY <1>1, <1>2, <1>3, <1>4

LEMMA ReviewVerified ==
  ASSUME BacklogTypeOK, Verified, NEW p \in Runners,
         Review(p) \/ Suspend(p) \/ Suspended(p) \/ ReviewAgain(p)
  PROVE  Verified'
<1> USE LocalsTyped, LocalsVerified, CheckpointKeeps DEF Quiet
<1>1. \A v : VerdictTrue([job[p] EXCEPT !.review = v], approved)
  BY DEF VerdictTrue, JobType
<1>2. CASE Review(p)
  <2>1. reg'.items = reg.items
    BY <1>2 DEF Review, OnItem
  <2> QED
    BY <1>1, <1>2, <2>1, StepVerified DEF Review
<1>3. CASE Suspend(p)
  <2>1. OnlyVerified(reg'.items, approved)
    BY <1>3, TransitionVerified DEF Suspend, OnItem, Statuses
  <2> QED
    BY <1>3, <2>1, StepVerified DEF Suspend
<1>4. CASE Suspended(p)
  BY <1>4, ReturnVerified DEF Suspended, OnItem
<1>5. CASE ReviewAgain(p)
  <2>1. reg'.items = reg.items
    BY <1>5 DEF ReviewAgain, OnItem
  <2> QED
    BY <1>1, <1>5, <2>1, StepVerified, ReturnVerified DEF ReviewAgain
<1> QED
  BY <1>2, <1>3, <1>4, <1>5

\* The one step that makes a verdict: it is true from then on.
LEMMA FinalVerified ==
  ASSUME BacklogTypeOK, Verified, NEW p \in Runners, Final(p) \/ Keep(p)
  PROVE  Verified'
<1> USE LocalsTyped, LocalsVerified, CheckpointKeeps DEF Quiet
<1>1. CASE Final(p)
  <2> DEFINE i == job[p].item
  <2>1. i \in Items
    BY <1>1 DEF Final, OnItem
  <2>2. PICK verdict \in Answers :
          LET jf == [job[p] EXCEPT !.final = verdict] IN
          /\ Checkpoint(i, FinalPhase(jf.mode), WithResult(reg.rec[i], "final", verdict))
          /\ approved' = IF verdict = "passed" THEN approved \cup {i} ELSE approved
          /\ Return(p) \/ (SetJob(p, jf) /\ UNCHANGED held)
    BY <1>1 DEF Final
  <2>3. reg'.items = reg.items
    BY <2>1, <2>2
  <2>4. approved \subseteq approved' /\ OnlyVerified(reg'.items, approved')
    BY <2>2, <2>3 DEF OnlyVerified
  <2>5. VerdictTrue([job[p] EXCEPT !.final = verdict], approved')
    BY <2>2 DEF VerdictTrue, JobType
  <2> QED
    BY <1>1, <2>2, <2>4, <2>5, StepVerified, ReturnVerified DEF Final
<1>2. CASE Keep(p)
  <2>1. VerdictTrue([job[p] EXCEPT !.stage = "final"], approved)
    BY DEF VerdictTrue, JobType
  <2>2. reg'.items = reg.items
    BY <1>2 DEF Keep, OnItem
  <2> QED
    BY <1>2, <2>1, <2>2, StepVerified, ReturnVerified DEF Keep
<1> QED
  BY <1>1, <1>2

\* A completion rests on a passed verdict in the locals.
LEMMA OutcomeVerified ==
  ASSUME BacklogTypeOK, Verified, NEW p \in Runners,
         Record(p) \/ Recorded(p) \/ Settle(p) \/ Settled(p)
  PROVE  Verified'
<1> USE LocalsTyped, LocalsVerified, CheckpointKeeps DEF Quiet
<1>1. CASE Record(p)
  <2>1. \A n, r : VerdictTrue([job[p] EXCEPT !.next = n, !.round = r], approved)
    BY DEF VerdictTrue, JobType
  <2>2. PICK n, r : SetJob(p, [job[p] EXCEPT !.next = n, !.round = r])
    BY <1>1 DEF Record
  <2> QED
    BY <1>1, <2>1, <2>2, StepVerified DEF Record
<1>2. CASE Recorded(p)
  <2>1. VerdictTrue([job[p] EXCEPT !.stage = "final"], approved)
    BY DEF VerdictTrue, JobType
  <2>2. reg'.items = reg.items
    BY <1>2 DEF Recorded, BacklogTypeOK, RegType
  <2> QED
    BY <1>2, <2>1, <2>2, StepVerified DEF Recorded
<1>3. CASE Settle(p)
  <2>1. PICK s \in Outcomes(job[p]) :
          Transition(p, job[p].item, s) /\ SetJob(p, [job[p] EXCEPT !.status = s])
    BY <1>3 DEF Settle
  <2>2. s \in Statuses /\ (s = "completed" => job[p].final = "passed")
    BY <2>1 DEF Outcomes, Statuses
  <2>3. OnlyVerified(reg'.items, approved)
    BY <1>3, <2>1, <2>2, TransitionVerified DEF Settle, OnItem, VerdictTrue
  <2>4. VerdictTrue([job[p] EXCEPT !.status = s], approved)
    BY DEF VerdictTrue, JobType
  <2> QED
    BY <1>3, <2>1, <2>3, <2>4, StepVerified DEF Settle
<1>4. CASE Settled(p)
  BY <1>4, ReturnVerified DEF Settled, OnItem
<1> QED
  BY <1>1, <1>2, <1>3, <1>4

\* No exception and no kill makes a verdict up.
LEMMA MishapVerified ==
  ASSUME BacklogTypeOK, Verified, NEW p \in Runners,
         Handle(p) \/ Fail(p) \/ Kill(p)
  PROVE  Verified'
<1> USE LocalsTyped, LocalsVerified DEF Quiet
<1>1. CASE Handle(p)
  <2>1. \A i, w : VerdictTrue([NoJob EXCEPT !.mode = "exception", !.stage = "candidate",
                                            !.item = i, !.worker = w], approved)
    BY NoJobTyped DEF VerdictTrue, JobType
  <2> QED
    BY <1>1, <2>1, StepVerified, ReturnVerified DEF Handle
<1>2. CASE Fail(p)
  <2>1. \A w : VerdictTrue([job[p] EXCEPT !.worker = w], approved)
                /\ VerdictTrue([job[p] EXCEPT !.stage = w], approved)
    BY DEF VerdictTrue, JobType
  <2>2. CASE Return(p)
    <3>1. SetJob(p, NoJob) /\ held' = [held EXCEPT ![p] = InitReg.items]
      BY <2>2 DEF Return, SetJob
    <3> QED
      BY <1>2, <3>1, StepVerified DEF Fail
  <2>3. CASE ~Return(p)
    BY <1>2, <2>1, <2>3, StepVerified DEF Fail
  <2> QED
    BY <2>2, <2>3
<1>3. CASE Kill(p)
  <2>1. SetJob(p, NoJob) /\ held' = [held EXCEPT ![p] = InitReg.items]
    BY <1>3 DEF Kill, Return, SetJob
  <2> QED
    BY <1>3, <2>1, StepVerified DEF Kill
<1> QED
  BY <1>1, <1>2, <1>3

LEMMA InitVerified == Init => Verified
BY NoJobTyped, InitRegTyped DEF Init, Verified, OnlyVerified, VerdictTrue

LEMMA NextVerified ==
  BacklogTypeOK /\ Verified /\ [Next]_vars => Verified'
<1> SUFFICES ASSUME BacklogTypeOK, Verified, [Next]_vars
             PROVE  Verified'
  OBVIOUS
<1>1. ASSUME NEW p \in Runners, Step(p)
      PROVE  Verified'
  BY <1>1, StartVerified, RoutingVerified, AttemptVerified, ReviewVerified, FinalVerified,
     OutcomeVerified, MishapVerified DEF Step, RecordUnknown
<1>2. ASSUME NEW p \in Runners, Raise(p) \/ Kill(p)
      PROVE  Verified'
  BY <1>2, MishapVerified DEF Raise
<1>3. CASE UNCHANGED vars
  BY <1>3 DEF vars, Verified, OnlyVerified, VerdictTrue
<1> QED
  BY <1>1, <1>2, <1>3 DEF Next

\* With any number of runners that undo each other's writes, kills and raised
\* calls: no item counts as completed without a final verification of it.
THEOREM CompletionsAreVerified == Spec => []CompletedVerified
<1>1. Verified => CompletedVerified
  BY DEF Verified, OnlyVerified, CompletedVerified
<1> QED
  BY <1>1, InitTyped, NextTyped, InitVerified, NextVerified, PTL DEF Spec

(***************************************************************************)
(* One runner.  What follows is proved for a backlog that is worked off by *)
(* a single runner; with two of them it is false, as the run backlog_pair  *)
(* shows of the first of it.                                               *)
(***************************************************************************)

OneRunner == \A p, q \in Runners : p = q

\* What a step leaves in the variables of the runner that takes it.
LEMMA After ==
  ASSUME BacklogTypeOK, NEW p \in Runners
  PROVE  /\ \A next : Goto(p, next) => pc'[p] = next
         /\ \A j : SetJob(p, j) => job'[p] = j
         /\ \A items : held' = [held EXCEPT ![p] = items] => held'[p] = items
         /\ \A r : snap' = [snap EXCEPT ![p] = r] => snap'[p] = r
         /\ Return(p) => pc'[p] = "idle" /\ job'[p] = NoJob
BY DEF Goto, SetJob, Return, BacklogTypeOK

(***************************************************************************)
(* A runner's copies of the file are the file, wherever it writes them     *)
(* back.  After a transition the list it holds is old, but then it returns *)
(* without another one.                                                    *)
(***************************************************************************)

Outdated == {"idle", "handle", "recovered", "suspended", "settled"}

Copies ==
  \A p \in Runners :
    /\ pc[p] \notin Outdated => held[p] = reg.items
    /\ pc[p] = "save" => snap[p] = reg

LEMMA StepCopies ==
  ASSUME OneRunner, NEW p \in Runners,
         pc'[p] \in Outdated \/ held'[p] = reg'.items,
         pc'[p] # "save" \/ snap'[p] = reg'
  PROVE  Copies'
BY DEF OneRunner, Copies

\* Steps that change the list of items neither in the file nor in the locals.
LEMMA StayCopies ==
  ASSUME OneRunner, Copies, NEW p \in Runners, UNCHANGED held,
         pc[p] \notin Outdated, pc'[p] # "save", reg'.items = reg.items
  PROVE  Copies'
BY StepCopies DEF Copies

LEMMA StartCopies ==
  ASSUME OneRunner, BacklogTypeOK, Copies, NEW p \in Runners,
         Wake(p) \/ Resume(p) \/ Claim(p) \/ Inspect(p) \/ Recover(p) \/ Recovered(p)
  PROVE  Copies'
<1> USE After DEF Quiet
<1>1. CASE Wake(p)
  BY <1>1, StepCopies DEF Wake
<1>2. CASE Resume(p)
  <2>1. pc'[p] # "save"
    BY <1>2 DEF Resume
  <2> QED
    BY <1>2, <2>1, StayCopies DEF Resume, Outdated
<1>3. CASE Claim(p)
  <2>1. ASSUME pc'[p] \notin Outdated
        PROVE  held'[p] = reg'.items
    BY <1>3, <2>1 DEF Claim, Outdated
  <2>2. pc'[p] # "save"
    BY <1>3 DEF Claim
  <2> QED
    BY <2>1, <2>2, StepCopies
<1>4. CASE Inspect(p)
  <2>1. CASE Return(p)
    BY <2>1, StepCopies DEF Outdated
  <2>2. CASE ~Return(p)
    BY <1>4, <2>2, StayCopies DEF Inspect, Outdated
  <2> QED
    BY <2>1, <2>2
<1>5. CASE Recover(p)
  BY <1>5, StepCopies DEF Recover, Outdated
<1>6. CASE Recovered(p)
  BY <1>6, StepCopies DEF Recovered, Outdated
<1> QED
  BY <1>1, <1>2, <1>3, <1>4, <1>5, <1>6

\* What a runner saves it has just read.
LEMMA SaveKeeps ==
  ASSUME BacklogTypeOK, Copies, NEW p \in Runners, Save(p)
  PROVE  reg'.items = reg.items /\ reg'.rec = reg.rec
<1>1. snap[p] = reg /\ job[p].next \in BrokerStates
  BY LocalsTyped DEF Copies, Save, WithState
<1>2. job[p].next.item \in Items
  BY <1>1 DEF BrokerStates
<1> QED
  BY <1>1, <1>2 DEF Save, Applied, BacklogTypeOK, RegType

LEMMA RoutingCopies ==
  ASSUME OneRunner, BacklogTypeOK, Copies, NEW p \in Runners,
         Route(p) \/ Load(p) \/ Save(p) \/ Dispatch(p) \/ Request(p) \/ Block(p)
  PROVE  Copies'
<1> USE After DEF Quiet
<1>1. CASE Route(p)
  BY <1>1, StayCopies DEF Route, Outdated
<1>2. CASE Load(p)
  <2>1. held[p] = reg.items
    BY <1>2 DEF Load, Copies, Outdated
  <2> QED
    BY <1>2, <2>1, StepCopies DEF Load
<1>3. CASE Save(p)
  <2>1. pc'[p] # "save"
    BY <1>3 DEF Save
  <2> QED
    BY <1>3, <2>1, SaveKeeps, StayCopies DEF Save, Outdated
<1>4. CASE Dispatch(p)
  <2>1. reg'.items = reg.items
    BY <1>4 DEF Dispatch, BacklogTypeOK, RegType
  <2> QED
    BY <1>4, <2>1, StayCopies DEF Dispatch, Outdated
<1>5. CASE Request(p)
  BY <1>5, StayCopies DEF Request, Outdated
<1>6. CASE Block(p)
  BY <1>6, StepCopies DEF Block, Outdated
<1> QED
  BY <1>1, <1>2, <1>3, <1>4, <1>5, <1>6

LEMMA GatesCopies ==
  ASSUME OneRunner, BacklogTypeOK, Copies, NEW p \in Runners,
         \/ Begin(p) \/ Execute(p) \/ Test(p) \/ SelfReview(p)
         \/ Review(p) \/ Suspend(p) \/ Suspended(p) \/ ReviewAgain(p)
         \/ Final(p) \/ Keep(p)
  PROVE  Copies'
<1> USE After DEF Quiet
<1>1. CASE Return(p)
  BY <1>1, StepCopies DEF Outdated
<1>2. CASE Suspend(p)
  BY <1>2, StepCopies DEF Suspend, Outdated
<1>3. CASE ~Return(p) /\ ~Suspend(p)
  <2>1. \/ Begin(p) \/ Execute(p) \/ Test(p) \/ SelfReview(p) \/ Review(p)
        \/ ReviewAgain(p) \/ Final(p) \/ Keep(p)
    BY <1>3 DEF Suspended
  <2>2. pc[p] \notin Outdated /\ pc[p] \in OnItem
    <3>1. pc[p] \in {"begin", "work", "tests", "self_review", "review", "final", "keep"}
      BY <2>1 DEF Begin, Execute, Test, SelfReview, Review, ReviewAgain, Final, Keep
    <3> QED
      BY <3>1 DEF Outdated, OnItem, PCs
  <2>3. job[p].item \in Items
    BY <2>2, LocalsTyped
  <2>4. reg'.items = reg.items
    BY <2>1, <2>3, CheckpointKeeps
       DEF Begin, Execute, Test, SelfReview, Review, ReviewAgain, Final, Keep
  <2>5. pc'[p] # "save" /\ UNCHANGED held
    BY <1>3, <2>1 DEF Begin, Execute, Test, SelfReview, Review, ReviewAgain, Final, Keep
  <2> QED
    BY <2>2, <2>4, <2>5, StayCopies
<1> QED
  BY <1>1, <1>2, <1>3

LEMMA OutcomeCopies ==
  ASSUME OneRunner, BacklogTypeOK, Copies, NEW p \in Runners,
         Record(p) \/ Recorded(p) \/ Settle(p) \/ Settled(p) \/ Handle(p)
  PROVE  Copies'
<1> USE After DEF Quiet
<1>1. CASE Record(p)
  BY <1>1, StayCopies DEF Record, Outdated
<1>2. CASE Recorded(p)
  <2>1. reg'.items = reg.items
    BY <1>2 DEF Recorded, BacklogTypeOK, RegType
  <2>2. pc'[p] # "save"
    BY <1>2 DEF Recorded
  <2> QED
    BY <1>2, <2>1, <2>2, StayCopies DEF Recorded, Outdated
<1>3. CASE Settle(p)
  BY <1>3, StepCopies DEF Settle, Outdated
<1>4. CASE Settled(p)
  BY <1>4, StepCopies DEF Settled, Outdated
<1>5. CASE Handle(p)
  BY <1>5, StepCopies DEF Handle, Outdated
<1> QED
  BY <1>1, <1>2, <1>3, <1>4, <1>5

LEMMA MishapCopies ==
  ASSUME OneRunner, BacklogTypeOK, Copies, NEW p \in Runners, Fail(p) \/ Kill(p)
  PROVE  Copies'
<1> USE After
<1>1. CASE Return(p) \/ Goto(p, "handle")
  BY <1>1, StepCopies DEF Outdated
<1>2. CASE ~Return(p) /\ ~Goto(p, "handle")
  <2>1. Fail(p) /\ UNCHANGED <<held, reg>>
    BY <1>2 DEF Fail, Kill
  <2>2. pc[p] \in {"route", "load", "save", "dispatch"} \cup Recording
        /\ pc'[p] \in {"dispatch", "block", "settle"}
    BY <1>2, <2>1 DEF Fail
  <2> QED
    BY <2>1, <2>2, StayCopies DEF Recording, Outdated
<1> QED
  BY <1>1, <1>2

LEMMA NextCopies ==
  ASSUME OneRunner
  PROVE  BacklogTypeOK /\ Copies /\ [Next]_vars => Copies'
<1> SUFFICES ASSUME BacklogTypeOK, Copies, [Next]_vars
             PROVE  Copies'
  OBVIOUS
<1>1. ASSUME NEW p \in Runners, Step(p)
      PROVE  Copies'
  BY <1>1, StartCopies, RoutingCopies, GatesCopies, OutcomeCopies, MishapCopies
     DEF Step, RecordUnknown
<1>2. ASSUME NEW p \in Runners, Raise(p) \/ Kill(p)
      PROVE  Copies'
  BY <1>2, MishapCopies DEF Raise
<1>3. CASE UNCHANGED vars
  BY <1>3 DEF vars, Copies
<1> QED
  BY <1>1, <1>2, <1>3 DEF Next

\* A single runner never undoes its own writes: a transition changes the item
\* it is about and no other, wherever the runner is killed or a call raises.
THEOREM OneRunnerMovesOneItem ==
  ASSUME OneRunner
  PROVE  Spec => TransitionsOneItem
<1>1. Init => Copies
  BY DEF Init, Copies, Outdated
<1>2. BacklogTypeOK /\ Copies /\ [Next]_vars
        => [\A p \in Runners :
              pc[p] \in {"recover", "block", "suspend", "settle"} /\ pc'[p] # pc[p]
                => \A i \in Items : reg'.items[i] # reg.items[i] => i = job[p].item]_vars
  <2> SUFFICES ASSUME BacklogTypeOK, Copies, Next, NEW p \in Runners,
                      pc[p] \in {"recover", "block", "suspend", "settle"},
                      NEW i \in Items, i # job[p].item
               PROVE  reg'.items[i] = reg.items[i]
    BY DEF vars
  <2>1. Step(p) \/ Raise(p) \/ Kill(p)
    BY DEF OneRunner, Next
  <2>2. held[p] = reg.items /\ job[p].item \in Items
    BY LocalsTyped DEF Copies, Outdated, OnItem, PCs
  <2>3. ASSUME NEW s \in Statuses, Transition(p, job[p].item, s)
        PROVE  reg'.items[i] = reg.items[i]
    BY <2>2, <2>3 DEF Transition, BacklogTypeOK, RegType
  <2>4. \/ UNCHANGED reg
        \/ \E s \in {"blocked"} \cup Outcomes(job[p]) : Transition(p, job[p].item, s)
    BY <2>1 DEF Step, Wake, Resume, Claim, Inspect, Recover, Recovered, Route, Load, Save,
       Dispatch, Request, Block, Begin, Execute, Test, SelfReview, Review, Suspend,
       Suspended, ReviewAgain, Final, Keep, Record, Recorded, Settle, Settled, Handle,
       RecordUnknown, Raise, Kill, Fail
  <2>5. {"blocked"} \cup Outcomes(job[p]) \subseteq Statuses
    BY DEF Outcomes, Statuses
  <2> QED
    BY <2>3, <2>4, <2>5
<1> QED
  BY <1>1, <1>2, InitTyped, NextTyped, NextCopies, PTL DEF Spec, TransitionsOneItem

(***************************************************************************)
(* The evidence of a completion.  It is written gate by gate, by more than *)
(* one call of run_next when a candidate has waited for a gate, so three   *)
(* things hold together: what the locals say has passed has passed in the  *)
(* file; a record that awaits a gate has the earlier ones as passed; and   *)
(* the locals fit the step that uses them.                                 *)
(***************************************************************************)

Candidate(j) == Implemented(j) /\ j.review = "passed"

\* The steps of an attempt before its review, and of its suspension.
RunSteps == {"recover", "recovered", "route", "dispatch", "request", "block", "begin",
             "work", "tests", "self_review", "suspend", "suspended"}

Fits(j, c) ==
  /\ c \notin OnItem => j = NoJob
  /\ c \in RunSteps \/ j.stage = "route" => j.mode = "run" /\ j.final = "none"
  /\ j.stage = "route" /\ c \in OnItem
       => c \in {"recover", "recovered", "route", "load", "save", "dispatch", "request",
                 "block"}
  /\ c = "review" => j.mode \in {"run", "review"} /\ j.final = "none"
  /\ c \in {"suspend", "suspended"} \/ j.mode = "review" => Implemented(j)
  /\ c \in {"final", "keep"} \/ j.mode = "final" \/ j.final # "none" => Candidate(j)
  /\ c = "keep" => j.mode = "review"
  /\ c = "final" => j.mode # "exception"
  /\ j.mode = "exception" => j.final = "none" /\ c \in Recording \cup {"settle", "settled"}

Backed(j, passed) ==
  /\ j.result = "passed" => "result" \in passed
  /\ j.tests = "passed" => "tests" \in passed
  /\ j.review = "passed" => "review" \in passed
  /\ j.final = "passed" => "final" \in passed

Sound(phase, passed) ==
  /\ phase = "review_pending" => {"result", "tests"} \subseteq passed
  /\ phase = "final_verification_pending" => {"result", "tests", "review"} \subseteq passed

Records == \A i \in Items : Sound(reg.rec[i].phase, reg.rec[i].passed)

Evidence ==
  /\ Records
  /\ \A p \in Runners :
       /\ Fits(job[p], pc[p])
       /\ pc[p] \in OnItem => Backed(job[p], reg.rec[job[p].item].passed)

LEMMA LocalsFit ==
  ASSUME BacklogTypeOK, Evidence, NEW p \in Runners
  PROVE  /\ job[p] \in JobType /\ Fits(job[p], pc[p])
         /\ pc[p] \in OnItem => /\ job[p].item \in Items
                                /\ Backed(job[p], reg.rec[job[p].item].passed)
                                /\ reg.rec[job[p].item] \in RecordType
BY LocalsTyped DEF Evidence

LEMMA NoJobFits ==
  /\ \A c \in {"idle", "resume", "claim", "inspect", "handle"} : Fits(NoJob, c)
  /\ \A passed : Backed(NoJob, passed)
BY DEF Fits, Backed, NoJob, OnItem, PCs, RunSteps, Implemented, Candidate

LEMMA StepEvidence ==
  ASSUME OneRunner, NEW p \in Runners, Records', Fits(job'[p], pc'[p]),
         pc'[p] \in OnItem => Backed(job'[p], reg'.rec[job'[p].item].passed)
  PROVE  Evidence'
BY DEF OneRunner, Evidence

LEMMA ReturnEvidence ==
  ASSUME OneRunner, BacklogTypeOK, NEW p \in Runners, Records',
         Return(p) \/ (Goto(p, "handle") /\ SetJob(p, NoJob))
  PROVE  Evidence'
<1>1. job'[p] = NoJob /\ pc'[p] \in {"idle", "handle"}
  BY After
<1> QED
  BY <1>1, NoJobFits, StepEvidence DEF OnItem

\* What a checkpoint writes.
LEMMA CheckpointWrites ==
  ASSUME BacklogTypeOK, NEW i \in Items, NEW phase, NEW r \in RecordType,
         Checkpoint(i, phase, r)
  PROVE  /\ reg'.rec[i].phase = phase /\ reg'.rec[i].passed = r.passed
         /\ reg'.rec[i].owner = IF phase = "executing" THEN r.owner ELSE NoOwner
         /\ \A k \in Items \ {i} : reg'.rec[k] = reg.rec[k]
BY DEF Checkpoint, BacklogTypeOK, RegType, RecordType

LEMMA CheckpointSound ==
  ASSUME BacklogTypeOK, Records, NEW i \in Items, NEW phase, NEW r \in RecordType,
         Checkpoint(i, phase, r), Sound(phase, r.passed)
  PROVE  Records' /\ reg'.rec[i].passed = r.passed
<1>1. \A k \in Items \ {i} : reg'.rec[k] = reg.rec[k]
  BY CheckpointWrites
<1> QED
  BY <1>1, CheckpointWrites DEF Records

LEMMA ResultWrites ==
  ASSUME NEW r \in RecordType, NEW gate \in Gates, NEW verdict
  PROVE  /\ WithResult(r, gate, verdict) \in RecordType
         /\ WithResult(r, gate, verdict).passed =
              IF verdict = "passed" THEN r.passed \cup {gate} ELSE r.passed \ {gate}
BY ResultTyped DEF WithResult, RecordType

\* A run's success, and a resumed review's, is that of a candidate.
LEMMA SuccessIsCandidate ==
  ASSUME NEW j, j.class \in {"substantive", "operational"}, CandidateSuccess(j),
         j.mode = "run" \/ Implemented(j)
  PROVE  Candidate(j)
BY DEF CandidateSuccess, Classification, Candidate, Implemented

LEMMA PassesBacked ==
  ASSUME NEW j, NEW before
  PROVE  /\ j.final = "none" => Backed(j, Passes(j, before))
         /\ Implemented(j) => {"result", "tests"} \subseteq Passes(j, before)
         /\ Candidate(j) => {"result", "tests", "review"} \subseteq Passes(j, before)
BY DEF Backed, Passes, Implemented, Candidate, Gates

\* A step that leaves the records alone.
LEMMA QuietEvidence ==
  ASSUME OneRunner, BacklogTypeOK, Evidence, NEW p \in Runners, reg'.rec = reg.rec,
         Fits(job'[p], pc'[p]),
         pc'[p] \in OnItem => Backed(job'[p], reg.rec[job'[p].item].passed)
  PROVE  Evidence'
<1>1. Records'
  BY DEF Evidence, Records
<1> QED
  BY <1>1, StepEvidence

\* A step with a checkpoint of the runner's item.
LEMMA CheckpointEvidence ==
  ASSUME OneRunner, BacklogTypeOK, Evidence, NEW p \in Runners, pc[p] \in OnItem,
         NEW phase, NEW r \in RecordType, Checkpoint(job[p].item, phase, r),
         Sound(phase, r.passed), Fits(job'[p], pc'[p]),
         pc'[p] \in OnItem => job'[p].item = job[p].item /\ Backed(job'[p], r.passed)
  PROVE  Evidence'
<1>1. Records' /\ reg'.rec[job[p].item].passed = r.passed
  BY LocalsTyped, CheckpointSound DEF Evidence
<1> QED
  BY <1>1, StepEvidence

\* The start of a run for an item that is claimed or recovered.
LEMMA NewJobFits ==
  ASSUME NEW i \in Items
  PROVE  /\ \A c \in {"route", "recover"} : Fits([NoJob EXCEPT !.item = i], c)
         /\ \A passed : Backed([NoJob EXCEPT !.item = i], passed)
BY DEF Fits, Backed, NoJob, OnItem, PCs, RunSteps, Implemented, Candidate

LEMMA ResumedFits ==
  ASSUME BacklogTypeOK, Records, NEW i \in Items, reg.rec[i].phase \in PendingPhases
  PROVE  /\ Fits(Resumed(i), IF reg.rec[i].phase = "review_pending" THEN "review" ELSE "final")
         /\ Resumed(i).item = i /\ Backed(Resumed(i), reg.rec[i].passed)
<1>1. Sound(reg.rec[i].phase, reg.rec[i].passed)
  BY DEF Records
<1>2. Resumed(i) = [NoJob EXCEPT
         !.mode = IF reg.rec[i].phase = "review_pending" THEN "review" ELSE "final",
         !.stage = IF reg.rec[i].phase = "review_pending" THEN "candidate" ELSE "final",
         !.item = i, !.worker = reg.rec[i].worker,
         !.result = Recalled(reg.rec[i], "result"),
         !.tests = Recalled(reg.rec[i], "tests"),
         !.review = Recalled(reg.rec[i], "review")]
  BY DEF Resumed
<1>3. \A g : Recalled(reg.rec[i], g) = "passed" <=> g \in reg.rec[i].passed
  BY DEF Recalled
<1>4. CASE reg.rec[i].phase = "review_pending"
  BY <1>1, <1>2, <1>3, <1>4
     DEF Fits, Backed, NoJob, OnItem, PCs, RunSteps, Implemented, Candidate, Sound
<1>5. CASE reg.rec[i].phase = "final_verification_pending"
  BY <1>1, <1>2, <1>3, <1>5
     DEF Fits, Backed, NoJob, OnItem, PCs, RunSteps, Implemented, Candidate, Sound
<1> QED
  BY <1>4, <1>5 DEF PendingPhases

LEMMA StartEvidence ==
  ASSUME OneRunner, BacklogTypeOK, Evidence, NEW p \in Runners,
         Wake(p) \/ Resume(p) \/ Claim(p) \/ Inspect(p) \/ Recover(p) \/ Recovered(p)
  PROVE  Evidence'
<1> USE After, LocalsFit DEF Quiet
<1> Records
  BY DEF Evidence
<1>1. CASE Wake(p)
  <2>1. job'[p] = NoJob /\ pc'[p] = "resume"
    BY <1>1 DEF Wake, Fits, OnItem
  <2> QED
    BY <1>1, <2>1, NoJobFits, QuietEvidence DEF Wake, OnItem
<1>2. CASE Resume(p)
  <2>1. CASE Pending = {} /\ Goto(p, "claim") /\ UNCHANGED job
    <3>1. job'[p] = NoJob /\ pc'[p] = "claim"
      BY <1>2, <2>1 DEF Resume, Fits, OnItem
    <3> QED
      BY <1>2, <3>1, NoJobFits, QuietEvidence DEF Resume, OnItem
  <2>2. ASSUME NEW i \in Items, Earliest(i, Pending), SetJob(p, Resumed(i)),
               Goto(p, IF reg.rec[i].phase = "review_pending" THEN "review" ELSE "final")
        PROVE  Evidence'
    <3>1. reg.rec[i].phase \in PendingPhases
      BY <2>2 DEF Earliest, Pending
    <3>2. job'[p] = Resumed(i)
          /\ pc'[p] = IF reg.rec[i].phase = "review_pending" THEN "review" ELSE "final"
      BY <2>2
    <3>3. Fits(job'[p], pc'[p]) /\ Backed(job'[p], reg.rec[job'[p].item].passed)
      BY <3>1, <3>2, ResumedFits
    <3> QED
      BY <1>2, <3>3, QuietEvidence DEF Resume
  <2> QED
    BY <1>2, <2>1, <2>2 DEF Resume
<1>3. CASE Claim(p)
  <2>1. reg'.rec = reg.rec
    BY <1>3 DEF Claim, BacklogTypeOK, RegType
  <2>2. CASE Return(p)
    <3>1. Records'
      BY <2>1 DEF Records
    <3> QED
      BY <2>2, <3>1, ReturnEvidence
  <2>3. CASE Goto(p, "inspect") /\ UNCHANGED job
    <3>1. job'[p] = NoJob /\ pc'[p] = "inspect"
      BY <1>3, <2>3 DEF Claim, Fits, OnItem
    <3> QED
      BY <2>1, <3>1, NoJobFits, QuietEvidence DEF OnItem
  <2>4. ASSUME NEW i \in Items, SetJob(p, [NoJob EXCEPT !.item = i]), Goto(p, "route")
        PROVE  Evidence'
    BY <2>1, <2>4, NewJobFits, QuietEvidence
  <2> QED
    BY <1>3, <2>2, <2>3, <2>4 DEF Claim
<1>4. CASE Inspect(p)
  <2>1. CASE Return(p)
    <3>1. Records'
      BY <1>4 DEF Records, Inspect
    <3> QED
      BY <2>1, <3>1, ReturnEvidence
  <2>2. ASSUME NEW i \in Items, SetJob(p, [NoJob EXCEPT !.item = i]), Goto(p, "recover")
        PROVE  Evidence'
    BY <1>4, <2>2, NewJobFits, QuietEvidence DEF Inspect
  <2> QED
    BY <1>4, <2>1, <2>2 DEF Inspect
<1>5. CASE Recover(p)
  <2>1. reg'.rec = reg.rec /\ UNCHANGED job /\ pc[p] = "recover" /\ pc'[p] = "recovered"
    BY <1>5 DEF Recover, Transition, BacklogTypeOK, RegType
  <2>2. Fits(job[p], "recovered")
    BY <2>1 DEF Fits, OnItem, PCs, RunSteps
  <2> QED
    BY <2>1, <2>2, QuietEvidence DEF OnItem, PCs
<1>6. CASE Recovered(p)
  <2> DEFINE i == job[p].item
  <2>1. pc[p] \in OnItem /\ Return(p) /\ Checkpoint(i, "recovery_required", reg.rec[i])
    BY <1>6 DEF Recovered, OnItem, PCs
  <2>2. Sound("recovery_required", reg.rec[i].passed)
    BY DEF Sound
  <2>3. Records'
    BY <2>1, <2>2, CheckpointSound
  <2> QED
    BY <2>1, <2>3, ReturnEvidence
<1> QED
  BY <1>1, <1>2, <1>3, <1>4, <1>5, <1>6

\* Locals that differ in what routing and recording write only.
SameCourse(j, k) ==
  /\ k.mode = j.mode /\ k.item = j.item /\ k.result = j.result
  /\ k.tests = j.tests /\ k.review = j.review /\ k.final = j.final

LEMMA RoutingCourse ==
  ASSUME BacklogTypeOK, NEW p \in Runners,
         Route(p) \/ Load(p) \/ Save(p) \/ Dispatch(p) \/ Request(p)
  PROVE  SameCourse(job[p], job'[p])
         /\ job'[p].stage = IF pc[p] = "request" THEN "candidate" ELSE job[p].stage
<1> USE After, LocalsTyped
<1>1. ASSUME NEW w, job'[p] = [job[p] EXCEPT !.worker = w]
      PROVE  SameCourse(job[p], job'[p]) /\ job'[p].stage = job[p].stage
  BY <1>1 DEF JobType, SameCourse
<1>2. ASSUME NEW w, NEW n,
             job'[p] = [job[p] EXCEPT !.worker = w, !.next = n, !.round = "current"]
      PROVE  SameCourse(job[p], job'[p]) /\ job'[p].stage = job[p].stage
  BY <1>2 DEF JobType, SameCourse
<1>3. CASE Route(p)
  <2> DEFINE fresh == [item |-> job[p].item, attempt |-> 1,
                       worker |-> FirstWorker(ClassOf[job[p].item])]
  <2>1. \/ job'[p] = [job[p] EXCEPT !.worker = reg.current.worker]
        \/ job'[p] = [job[p] EXCEPT !.worker = fresh.worker, !.next = fresh,
                                     !.round = "current"]
    BY <1>3 DEF Route
  <2>2. pc[p] = "route"
    BY <1>3 DEF Route
  <2> HIDE After DEF fresh
  <2> QED
    BY <1>1, <1>2, <2>1, <2>2
<1>4. CASE Load(p) \/ Dispatch(p)
  BY <1>4 DEF Load, Dispatch, SameCourse
<1>5. CASE Save(p)
  <2>1. CASE UNCHANGED job
    BY <1>5, <2>1 DEF SameCourse, Save
  <2>2. CASE job[p].round # "history"
    BY <1>5, <2>2 DEF Save, JobType, SameCourse
  <2> QED
    BY <1>5, <2>1, <2>2 DEF Save
<1>6. CASE Request(p)
  <2>1. pc[p] = "request"
        /\ job'[p] = [job[p] EXCEPT !.worker = reg.selected, !.stage = "candidate"]
    BY <1>6 DEF Request
  <2> HIDE After
  <2> QED
    BY <2>1 DEF JobType, SameCourse
<1> QED
  BY <1>3, <1>4, <1>5, <1>6

LEMMA RoutingEvidence ==
  ASSUME OneRunner, BacklogTypeOK, Copies, Evidence, NEW p \in Runners,
         Route(p) \/ Load(p) \/ Save(p) \/ Dispatch(p) \/ Request(p) \/ Block(p)
  PROVE  Evidence'
<1> USE After, LocalsFit DEF Quiet
<1>1. reg'.rec = reg.rec
  BY SaveKeeps DEF Route, Load, Dispatch, Request, Block, Transition, BacklogTypeOK, RegType
<1>2. CASE Block(p)
  <2>1. Records'
    BY <1>1 DEF Evidence, Records
  <2> QED
    BY <1>2, <2>1, ReturnEvidence DEF Block
<1>3. CASE Route(p) \/ Load(p) \/ Save(p) \/ Dispatch(p) \/ Request(p)
  <2>1. pc[p] \in {"route", "load", "save", "dispatch", "request"} /\ pc[p] \in OnItem
    BY <1>3 DEF Route, Load, Save, Dispatch, Request, OnItem, PCs
  <2>2. SameCourse(job[p], job'[p])
        /\ job'[p].stage = IF pc[p] = "request" THEN "candidate" ELSE job[p].stage
    BY <1>3, RoutingCourse
  <2>3. pc'[p] \in {"load", "save", "dispatch", "recorded", "request", "begin"}
        /\ (pc'[p] \in {"dispatch", "request", "begin"}
              => pc[p] \in {"route", "dispatch", "request"} \/ job[p].stage = "route")
        /\ (pc'[p] = "begin" <=> pc[p] = "request")
        /\ (pc'[p] = "recorded" => job[p].stage # "route")
    BY <1>3 DEF Route, Load, Save, Dispatch, Request
  <2>4. Fits(job'[p], pc'[p])
    BY <2>1, <2>2, <2>3 DEF Fits, OnItem, PCs, RunSteps, JobType, Implemented, Candidate,
                            Recording, SameCourse
  <2>5. job'[p].item = job[p].item
        /\ \A passed : Backed(job[p], passed) => Backed(job'[p], passed)
    BY <2>2 DEF Backed, SameCourse
  <2> QED
    BY <1>1, <2>1, <2>4, <2>5, QuietEvidence
<1> QED
  BY <1>2, <1>3

\* The result of a gate, in the locals and in the record.
LEMMA GateBacked ==
  ASSUME NEW j, NEW k, NEW r \in RecordType, NEW v, NEW gate \in Gates,
         Backed(j, r.passed),
         k.result = IF gate = "result" THEN v ELSE j.result,
         k.tests = IF gate = "tests" THEN v ELSE j.tests,
         k.review = IF gate = "review" THEN v ELSE j.review,
         k.final = IF gate = "final" THEN v ELSE j.final
  PROVE  WithResult(r, gate, v) \in RecordType /\ Backed(k, WithResult(r, gate, v).passed)
<1>1. WithResult(r, gate, v).passed
        = IF v = "passed" THEN r.passed \cup {gate} ELSE r.passed \ {gate}
  BY ResultWrites
<1> QED
  BY <1>1, ResultTyped DEF Backed, Gates

LEMMA AttemptEvidence ==
  ASSUME OneRunner, BacklogTypeOK, Evidence, NEW p \in Runners,
         Begin(p) \/ Execute(p) \/ Test(p) \/ SelfReview(p)
  PROVE  Evidence'
<1> DEFINE i == job[p].item
           r == reg.rec[i]
<1>0. /\ pc[p] \in {"begin", "work", "tests", "self_review"} /\ pc[p] \in OnItem
      /\ job[p].mode = "run" /\ job[p].final = "none"
      /\ job[p] \in JobType /\ Fits(job[p], pc[p]) /\ Backed(job[p], r.passed)
      /\ r \in RecordType /\ i \in Items
  <2>1. pc[p] \in {"begin", "work", "tests", "self_review"}
    BY DEF Begin, Execute, Test, SelfReview
  <2> QED
    BY <2>1, LocalsFit DEF Fits, OnItem, PCs, RunSteps
<1> DEFINE fit(j, c) == Fits(j, c) /\ j.item = i
<1>1. CASE Begin(p)
  <2> DEFINE s == [r EXCEPT !.worker = job[p].worker, !.owner = <<p, life[p].kills>>]
  <2>1. s \in RecordType /\ s.passed = r.passed
    BY <1>0, RecordBegun DEF RecordType, JobType, BacklogTypeOK
  <2>2. job'[p] = job[p] /\ pc'[p] = "work" /\ Checkpoint(i, "executing", s)
    BY <1>1, After DEF Begin
  <2>3. fit(job[p], "work")
    BY <1>0, <1>1 DEF Fits, OnItem, PCs, RunSteps, Begin
  <2> HIDE DEF s
  <2> QED
    BY <1>0, <2>1, <2>2, <2>3, CheckpointEvidence DEF Sound
<1>2. CASE Execute(p)
  <2>1. PICK result \in Decided, class \in {"substantive", "operational"} :
          /\ job'[p] = [job[p] EXCEPT !.result = result, !.class = class]
          /\ Checkpoint(i, "worker_complete", WithResult(r, "result", result))
    BY <1>2, After DEF Execute
  <2>2. pc[p] = "work" /\ pc'[p] = "tests"
    BY <1>2, After DEF Execute
  <2>3. fit(job'[p], "tests")
    BY <1>0, <2>1, <2>2 DEF Fits, OnItem, PCs, RunSteps, JobType
  <2>4. WithResult(r, "result", result) \in RecordType
        /\ Backed(job'[p], WithResult(r, "result", result).passed)
    <3>1. job'[p].result = result /\ job'[p].tests = job[p].tests
          /\ job'[p].review = job[p].review /\ job'[p].final = job[p].final
      BY <1>0, <2>1 DEF JobType
    <3> QED
      BY <1>0, <3>1, GateBacked DEF Gates
  <2> QED
    BY <1>0, <2>1, <2>2, <2>3, <2>4, CheckpointEvidence DEF Sound
<1>3. CASE Test(p)
  <2>1. PICK verdict \in Decided :
          /\ job'[p] = [job[p] EXCEPT !.tests = verdict]
          /\ Checkpoint(i, "tests_complete", WithResult(r, "tests", verdict))
    BY <1>3, After DEF Test
  <2>2. pc[p] = "tests" /\ pc'[p] \in {"self_review", "review"}
    BY <1>3, After DEF Test
  <2>3. fit(job'[p], pc'[p])
    BY <1>0, <2>1, <2>2 DEF Fits, OnItem, PCs, RunSteps, JobType
  <2>4. WithResult(r, "tests", verdict) \in RecordType
        /\ Backed(job'[p], WithResult(r, "tests", verdict).passed)
    <3>1. job'[p].result = job[p].result /\ job'[p].tests = verdict
          /\ job'[p].review = job[p].review /\ job'[p].final = job[p].final
      BY <1>0, <2>1 DEF JobType
    <3>2. "tests" \in Gates
      BY DEF Gates
    <3> HIDE DEF r
    <3> QED
      BY <1>0, <3>1, <3>2, GateBacked
  <2>5. Sound("tests_complete", WithResult(r, "tests", verdict).passed)
    BY DEF Sound
  <2> QED
    BY <1>0, <2>1, <2>3, <2>4, <2>5, CheckpointEvidence
<1>4. CASE SelfReview(p)
  <2>1. pc[p] = "self_review" /\ pc'[p] = "review" /\ Checkpoint(i, "self_review_complete", r)
    BY <1>4, After DEF SelfReview
  <2>2. \/ job'[p] = job[p]
        \/ job'[p] = [job[p] EXCEPT !.result = "rejected", !.class = "substantive",
                                    !.review = "rejected"]
    BY <1>4, After DEF SelfReview
  <2>3. fit(job'[p], "review") /\ Backed(job'[p], r.passed)
    <3>1. CASE job'[p] = job[p]
      BY <1>0, <2>1, <3>1 DEF Fits, OnItem, PCs, RunSteps
    <3>2. CASE job'[p] = [job[p] EXCEPT !.result = "rejected", !.class = "substantive",
                                        !.review = "rejected"]
      BY <1>0, <2>1, <3>2 DEF Fits, OnItem, PCs, RunSteps, JobType, Backed
    <3> QED
      BY <2>2, <3>1, <3>2
  <2> QED
    BY <1>0, <2>1, <2>3, CheckpointEvidence DEF Sound
<1> QED
  BY <1>1, <1>2, <1>3, <1>4

LEMMA ReviewEvidence ==
  ASSUME OneRunner, BacklogTypeOK, Evidence, NEW p \in Runners,
         Review(p) \/ Suspend(p) \/ Suspended(p) \/ ReviewAgain(p)
  PROVE  Evidence'
<1> DEFINE i == job[p].item
           r == reg.rec[i]
<1>0. /\ pc[p] \in {"review", "suspend", "suspended"} /\ pc[p] \in OnItem
      /\ job[p].final = "none"
      /\ job[p] \in JobType /\ Fits(job[p], pc[p]) /\ Backed(job[p], r.passed)
      /\ r \in RecordType /\ i \in Items
  <2>1. pc[p] \in {"review", "suspend", "suspended"}
    BY DEF Review, Suspend, Suspended, ReviewAgain
  <2> QED
    BY <2>1, LocalsFit DEF Fits, OnItem, PCs, RunSteps
<1>1. ASSUME NEW verdict, NEW j, j = [job[p] EXCEPT !.review = verdict]
      PROVE  /\ WithResult(r, "review", verdict) \in RecordType
             /\ Backed(j, WithResult(r, "review", verdict).passed)
             /\ j.item = i /\ j.mode = job[p].mode /\ j.stage = job[p].stage
             /\ j.final = "none" /\ j.class \in {"substantive", "operational"}
             /\ Implemented(j) <=> Implemented(job[p])
  <2>1. j.result = job[p].result /\ j.tests = job[p].tests /\ j.review = verdict
        /\ j.item = i /\ j.mode = job[p].mode /\ j.stage = job[p].stage
        /\ j.final = job[p].final /\ j.class \in {"substantive", "operational"}
    BY <1>0, <1>1 DEF JobType
  <2>2. /\ WithResult(r, "review", verdict) \in RecordType
        /\ Backed(j, WithResult(r, "review", verdict).passed)
    <3>1. "review" \in Gates
      BY DEF Gates
    <3> HIDE DEF r
    <3> QED
      BY <1>0, <2>1, <3>1, GateBacked
  <2> QED
    BY <1>0, <2>1, <2>2 DEF Implemented
<1>2. CASE Review(p)
  <2>1. PICK verdict \in Answers :
          LET j == [job[p] EXCEPT !.review = verdict] IN
          /\ SetJob(p, j)
          /\ Checkpoint(i, "review_complete", WithResult(r, "review", verdict))
          /\ Goto(p, CASE Implemented(j) /\ verdict = "unavailable" -> "suspend"
                       [] CandidateSuccess(j)                       -> "final"
                       [] OTHER                                     -> "record")
    BY <1>2 DEF Review
  <2> DEFINE j == [job[p] EXCEPT !.review = verdict]
  <2>2. job'[p] = j /\ Checkpoint(i, "review_complete", WithResult(r, "review", verdict))
    BY <2>1, After
  <2>3. /\ pc'[p] \in {"suspend", "final", "record"}
        /\ pc'[p] = "suspend" => Implemented(j)
        /\ pc'[p] = "final" => CandidateSuccess(j)
    <3>1. CASE Implemented(j) /\ verdict = "unavailable"
      BY <2>1, <3>1, After
    <3>2. CASE ~(Implemented(j) /\ verdict = "unavailable") /\ CandidateSuccess(j)
      BY <2>1, <3>2, After
    <3>3. CASE ~(Implemented(j) /\ verdict = "unavailable") /\ ~CandidateSuccess(j)
      BY <2>1, <3>3, After
    <3> QED
      BY <3>1, <3>2, <3>3
  <2>4. pc[p] = "review" /\ job[p].mode = "run"
    BY <1>2 DEF Review
  <2>5. j.mode = "run" /\ j.final = "none" /\ j.stage = job[p].stage
        /\ j.class \in {"substantive", "operational"}
    BY <1>1, <2>4
  <2> HIDE DEF j
  <2>6. CandidateSuccess(j) => Candidate(j)
    BY <2>5, SuccessIsCandidate
  <2>7. Fits(j, pc'[p])
    BY <1>0, <2>3, <2>4, <2>5, <2>6 DEF Fits, OnItem, PCs, RunSteps
  <2> QED
    BY <1>0, <1>1, <2>2, <2>7, CheckpointEvidence DEF Sound, j
<1>3. CASE Suspend(p)
  <2>1. reg'.rec = reg.rec /\ job'[p] = job[p] /\ pc[p] = "suspend" /\ pc'[p] = "suspended"
    BY <1>3, After DEF Suspend, Transition, BacklogTypeOK, RegType
  <2>2. Fits(job[p], "suspended")
    BY <1>0, <2>1 DEF Fits, OnItem, PCs, RunSteps
  <2> QED
    BY <1>0, <2>1, <2>2, QuietEvidence
<1>4. CASE Suspended(p)
  <2> DEFINE s == [r EXCEPT !.worker = job[p].worker, !.passed = Passes(job[p], @)]
  <2>1. s \in RecordType /\ s.passed = Passes(job[p], r.passed)
    BY <1>0, KeptTyped DEF RecordType, JobType
  <2>2. Checkpoint(i, "review_pending", s) /\ Return(p) /\ pc[p] = "suspended"
    BY <1>4 DEF Suspended
  <2>3. Sound("review_pending", s.passed)
    BY <1>0, <2>1, <2>2, PassesBacked DEF Fits, Sound
  <2> HIDE DEF s
  <2>4. Records'
    BY <1>0, <2>1, <2>2, <2>3, CheckpointSound DEF Evidence
  <2> QED
    BY <2>2, <2>4, ReturnEvidence
<1>5. CASE ReviewAgain(p)
  <2>1. pc[p] = "review" /\ job[p].mode = "review"
    BY <1>5 DEF ReviewAgain
  <2>2. PICK verdict \in Answers :
          /\ Checkpoint(i, "review_pending", WithResult(r, "review", verdict))
          /\ \/ Return(p)
             \/ SetJob(p, [job[p] EXCEPT !.review = verdict]) /\ Goto(p, "record")
    BY <1>5 DEF ReviewAgain
  <2> DEFINE j == [job[p] EXCEPT !.review = verdict]
             s == WithResult(r, "review", verdict)
  <2>3. s \in RecordType /\ Sound("review_pending", s.passed)
    <3>1. {"result", "tests"} \subseteq r.passed
      BY <1>0, <2>1 DEF Fits, Backed, Implemented
    <3>2. s \in RecordType
          /\ s.passed = IF verdict = "passed" THEN r.passed \cup {"review"}
                                              ELSE r.passed \ {"review"}
      BY <1>0, ResultWrites DEF Gates
    <3> QED
      BY <3>1, <3>2 DEF Sound
  <2>4. CASE Return(p)
    <3>1. Records'
      BY <1>0, <2>2, <2>3, CheckpointSound DEF Evidence
    <3> QED
      BY <2>4, <3>1, ReturnEvidence
  <2>5. CASE SetJob(p, j) /\ Goto(p, "record")
    <3>1. job'[p] = j /\ pc'[p] = "record"
      BY <2>5, After
    <3>2. Fits(j, "record") /\ j.item = i /\ Backed(j, s.passed)
      <4>1. /\ Backed(j, s.passed) /\ j.item = i /\ j.mode = job[p].mode
            /\ j.stage = job[p].stage /\ j.final = "none"
            /\ Implemented(j) <=> Implemented(job[p])
        BY <1>1
      <4> HIDE DEF j, s
      <4> QED
        BY <1>0, <2>1, <4>1 DEF Fits, OnItem, PCs, RunSteps
    <3> HIDE DEF j, s
    <3> QED
      BY <1>0, <2>2, <2>3, <3>1, <3>2, CheckpointEvidence DEF s
  <2> QED
    BY <2>2, <2>4, <2>5
<1> QED
  BY <1>2, <1>3, <1>4, <1>5

LEMMA FinalEvidence ==
  ASSUME OneRunner, BacklogTypeOK, Evidence, NEW p \in Runners, Final(p) \/ Keep(p)
  PROVE  Evidence'
<1> DEFINE i == job[p].item
           r == reg.rec[i]
<1>0. /\ pc[p] \in {"final", "keep"} /\ pc[p] \in OnItem /\ Candidate(job[p])
      /\ job[p] \in JobType /\ Fits(job[p], pc[p]) /\ Backed(job[p], r.passed)
      /\ r \in RecordType /\ i \in Items
      /\ {"result", "tests", "review"} \subseteq r.passed
  <2>1. pc[p] \in {"final", "keep"}
    BY DEF Final, Keep
  <2>2. Candidate(job[p])
    BY <2>1, LocalsFit DEF Fits
  <2> QED
    BY <2>1, <2>2, LocalsFit DEF OnItem, PCs, Candidate, Implemented, Backed
<1>1. CASE Final(p)
  <2>1. PICK verdict \in Answers :
          LET j == [job[p] EXCEPT !.final = verdict] IN
          /\ Checkpoint(i, FinalPhase(j.mode), WithResult(r, "final", verdict))
          /\ \/ Return(p)
             \/ j.mode = "review" /\ SetJob(p, j) /\ Goto(p, "keep")
             \/ SetJob(p, j) /\ Goto(p, "record")
    BY <1>1 DEF Final
  <2> DEFINE j == [job[p] EXCEPT !.final = verdict]
             s == WithResult(r, "final", verdict)
  <2>2. /\ j.result = job[p].result /\ j.tests = job[p].tests /\ j.review = job[p].review
        /\ j.final = verdict /\ j.item = i /\ j.mode = job[p].mode /\ j.stage = job[p].stage
    BY <1>0 DEF JobType
  <2>3. s \in RecordType
        /\ s.passed = IF verdict = "passed" THEN r.passed \cup {"final"}
                                            ELSE r.passed \ {"final"}
    BY <1>0, ResultWrites DEF Gates
  <2> HIDE DEF j, s
  <2>4. Backed(j, s.passed)
    BY <1>0, <2>2, GateBacked DEF Gates, s
  <2>5. \A phase : Sound(phase, s.passed)
    BY <1>0, <2>3 DEF Sound
  <2>6. CASE Return(p)
    <3>1. Records'
      BY <1>0, <2>1, <2>3, <2>5, CheckpointSound DEF Evidence, s
    <3> QED
      BY <2>6, <3>1, ReturnEvidence
  <2>7. CASE SetJob(p, j) /\ (Goto(p, "record") \/ (j.mode = "review" /\ Goto(p, "keep")))
    <3>1. job'[p] = j /\ pc'[p] \in {"record", "keep"} /\ (pc'[p] = "keep" => j.mode = "review")
      BY <2>7, After
    <3>2. pc[p] = "final"
      BY <1>1 DEF Final
    <3>3. Fits(j, pc'[p])
      BY <1>0, <2>2, <3>1, <3>2 DEF Fits, OnItem, PCs, RunSteps, Candidate, Implemented
    <3> QED
      BY <1>0, <2>1, <2>2, <2>3, <2>4, <2>5, <3>1, <3>3, CheckpointEvidence DEF s
  <2> QED
    BY <2>1, <2>6, <2>7 DEF j
<1>2. CASE Keep(p)
  <2> DEFINE s == [r EXCEPT !.worker = job[p].worker, !.passed = Passes(job[p], @)]
             j == [job[p] EXCEPT !.stage = "final"]
  <2>1. s \in RecordType /\ s.passed = Passes(job[p], r.passed)
    BY <1>0, KeptTyped DEF RecordType, JobType
  <2>2. Checkpoint(i, "final_verification_pending", s) /\ pc[p] = "keep"
    BY <1>2 DEF Keep
  <2>3. Sound("final_verification_pending", s.passed)
    BY <1>0, <2>1, PassesBacked DEF Sound
  <2>4. \/ job[p].final = "none" /\ SetJob(p, j) /\ Goto(p, "final")
        \/ Return(p)
    BY <1>2 DEF Keep
  <2>5. SameCourse(job[p], j) /\ j.stage = "final"
    BY <1>0 DEF JobType, SameCourse
  <2> HIDE DEF j, s
  <2>6. CASE Return(p)
    <3>1. Records'
      BY <1>0, <2>1, <2>2, <2>3, CheckpointSound DEF Evidence
    <3> QED
      BY <2>6, <3>1, ReturnEvidence
  <2>7. CASE job[p].final = "none" /\ SetJob(p, j) /\ Goto(p, "final")
    <3>1. job'[p] = j /\ pc'[p] = "final"
      BY <2>7, After
    <3>2. Backed(j, s.passed) /\ j.item = i
      BY <2>1, <2>5, <2>7, PassesBacked DEF SameCourse, Backed
    <3>3. Fits(j, "final")
      BY <1>0, <2>2, <2>5, <2>7
         DEF Fits, SameCourse, OnItem, PCs, RunSteps, Candidate, Implemented
    <3> QED
      BY <1>0, <2>1, <2>2, <2>3, <3>1, <3>2, <3>3, CheckpointEvidence
  <2> QED
    BY <2>4, <2>6, <2>7
<1> QED
  BY <1>1, <1>2

LEMMA OutcomeEvidence ==
  ASSUME OneRunner, BacklogTypeOK, Evidence, NEW p \in Runners,
         Record(p) \/ Recorded(p) \/ Settle(p) \/ Settled(p)
  PROVE  Evidence'
<1>0. /\ pc[p] \in {"record", "recorded", "settle", "settled"} /\ pc[p] \in OnItem
      /\ job[p] \in JobType /\ Fits(job[p], pc[p]) /\ job[p].item \in Items
      /\ Backed(job[p], reg.rec[job[p].item].passed)
      /\ job[p].stage # "route" /\ reg.rec[job[p].item] \in RecordType
  <2>1. pc[p] \in {"record", "recorded", "settle", "settled"}
    BY DEF Record, Recorded, Settle, Settled
  <2> QED
    BY <2>1, LocalsFit DEF Fits, OnItem, PCs
<1>1. ASSUME SameCourse(job[p], job'[p]), job'[p].stage # "route", reg'.rec = reg.rec,
             pc'[p] \in {"load", "record", "keep", "settle", "settled"},
             pc'[p] = "keep" => job[p].mode = "review" /\ CandidateSuccess(job[p])
      PROVE  Evidence'
  <2>1. pc'[p] = "keep" => Candidate(job[p])
    BY <1>0, <1>1, SuccessIsCandidate DEF Fits, JobType
  <2>2. Fits(job'[p], pc'[p])
    BY <1>0, <1>1, <2>1 DEF Fits, SameCourse, OnItem, PCs, RunSteps, Candidate, Implemented,
                            Recording
  <2>3. job'[p].item = job[p].item /\ Backed(job'[p], reg.rec[job[p].item].passed)
    BY <1>0, <1>1 DEF SameCourse, Backed
  <2> QED
    BY <1>1, <2>2, <2>3, QuietEvidence
<1>2. CASE Record(p)
  <2>1. PICK n, round : job'[p] = [job[p] EXCEPT !.next = n, !.round = round]
    <3>1. PICK n, round : SetJob(p, [job[p] EXCEPT !.next = n, !.round = round])
      BY <1>2 DEF Record
    <3> QED
      BY <3>1, After
  <2>2. SameCourse(job[p], job'[p]) /\ job'[p].stage = job[p].stage
    BY <1>0, <2>1 DEF SameCourse, JobType
  <2>3. pc'[p] = "load" /\ reg' = reg
    BY <1>2, After DEF Record
  <2> QED
    BY <1>0, <1>1, <2>2, <2>3
<1>3. CASE Recorded(p)
  <2>1. reg'.rec = reg.rec
    BY <1>3 DEF Recorded, BacklogTypeOK, RegType
  <2>2. CASE SetJob(p, [job[p] EXCEPT !.stage = "final"]) /\ Goto(p, "record")
    <3>1. job'[p] = [job[p] EXCEPT !.stage = "final"] /\ pc'[p] = "record"
      BY <2>2, After
    <3>2. SameCourse(job[p], job'[p]) /\ job'[p].stage = "final"
      BY <1>0, <3>1 DEF SameCourse, JobType
    <3> QED
      BY <1>1, <2>1, <3>1, <3>2
  <2>3. CASE UNCHANGED job
    <3>1. SameCourse(job[p], job'[p]) /\ job'[p].stage = job[p].stage
      BY <2>3 DEF SameCourse
    <3>2. \/ pc'[p] = "settle" \/ pc'[p] = "record"
          \/ pc'[p] = "keep" /\ job[p].mode = "review" /\ CandidateSuccess(job[p])
      BY <1>3, After DEF Recorded
    <3> QED
      BY <1>0, <1>1, <2>1, <3>1, <3>2
  <2> QED
    BY <1>3, <2>2, <2>3 DEF Recorded
<1>4. CASE Settle(p)
  <2>1. PICK s \in Outcomes(job[p]) : job'[p] = [job[p] EXCEPT !.status = s]
    BY <1>4, After DEF Settle
  <2>2. SameCourse(job[p], job'[p]) /\ job'[p].stage = job[p].stage
    BY <1>0, <2>1 DEF SameCourse, JobType
  <2>3. pc'[p] = "settled" /\ reg'.rec = reg.rec
    BY <1>4, After DEF Settle, Transition, BacklogTypeOK, RegType
  <2> QED
    BY <1>0, <1>1, <2>2, <2>3
<1>5. CASE Settled(p)
  <2> DEFINE r == reg.rec[job[p].item]
  <2>1. Return(p) /\ Checkpoint(job[p].item, LastPhase(job[p]), r)
    BY <1>5 DEF Settled
  <2>2. Unverified(job[p]) => Candidate(job[p])
    BY <1>0 DEF Fits, Unverified
  <2>3. job[p].status \notin PendingPhases
    BY <1>0 DEF JobType, Statuses, PendingPhases
  <2>4. Sound(LastPhase(job[p]), r.passed)
    BY <1>0, <2>2, <2>3 DEF LastPhase, Sound, Backed, Candidate, Implemented, PendingPhases
  <2>5. Records'
    BY <1>0, <2>1, <2>4, CheckpointSound DEF Evidence
  <2> QED
    BY <2>1, <2>5, ReturnEvidence
<1> QED
  BY <1>2, <1>3, <1>4, <1>5

LEMMA MishapEvidence ==
  ASSUME OneRunner, BacklogTypeOK, Evidence, NEW p \in Runners,
         Handle(p) \/ (Fail(p) /\ pc[p] # "idle") \/ Kill(p)
  PROVE  Evidence'
<1>0. reg' = reg
  BY DEF Handle, Fail, Kill
<1>1. CASE Return(p) \/ (Goto(p, "handle") /\ SetJob(p, NoJob))
  <2>1. Records'
    BY <1>0 DEF Evidence, Records
  <2> QED
    BY <1>1, <2>1, ReturnEvidence
<1>2. CASE Handle(p) /\ ~Return(p)
  <2>1. PICK i \in Items :
          job'[p] = [NoJob EXCEPT !.mode = "exception", !.stage = "candidate",
                                  !.item = i, !.worker = reg.rec[i].worker]
    BY <1>2, After DEF Handle
  <2>2. pc'[p] = "record"
    BY <1>2, After DEF Handle
  <2>3. Fits(job'[p], "record") /\ \A passed : Backed(job'[p], passed)
    BY <2>1 DEF Fits, Backed, NoJob, OnItem, PCs, RunSteps, Implemented, Candidate, Recording
  <2> QED
    BY <1>0, <2>2, <2>3, QuietEvidence
<1>3. ASSUME Fail(p), pc[p] \in OnItem, SameCourse(job[p], job'[p]),
             \/ /\ pc'[p] = "dispatch" /\ job[p].stage = "route"
                /\ job'[p].stage = job[p].stage
             \/ /\ pc'[p] = "block" /\ pc[p] = "dispatch" /\ job'[p].stage = job[p].stage
             \/ pc'[p] = "settle" /\ job'[p].stage = "unrecorded"
      PROVE  Evidence'
  <2>1. Fits(job[p], pc[p]) /\ Backed(job[p], reg.rec[job[p].item].passed)
    BY <1>3, LocalsFit
  <2>2. Fits(job'[p], pc'[p])
    BY <1>3, <2>1 DEF Fits, SameCourse, OnItem, PCs, RunSteps, Candidate, Implemented
  <2>3. job'[p].item = job[p].item /\ Backed(job'[p], reg.rec[job[p].item].passed)
    BY <1>3, <2>1 DEF SameCourse, Backed
  <2> QED
    BY <1>0, <2>2, <2>3, QuietEvidence
<1>4. ASSUME NEW w, job'[p] = [job[p] EXCEPT !.worker = w]
      PROVE  SameCourse(job[p], job'[p]) /\ job'[p].stage = job[p].stage
  BY <1>4, LocalsTyped DEF JobType, SameCourse
<1>5. ASSUME job'[p] = [job[p] EXCEPT !.stage = "unrecorded"]
      PROVE  SameCourse(job[p], job'[p]) /\ job'[p].stage = "unrecorded"
  BY <1>5, LocalsTyped DEF JobType, SameCourse
<1>6. CASE Fail(p) /\ pc[p] # "idle" /\ ~Return(p) /\ ~(Goto(p, "handle") /\ SetJob(p, NoJob))
  <2>1. \/ /\ job[p].stage = "route" /\ pc[p] \in {"route", "load", "save"}
           /\ SetJob(p, [job[p] EXCEPT !.worker = "p40"]) /\ Goto(p, "dispatch")
        \/ pc[p] = "dispatch" /\ Goto(p, "block") /\ UNCHANGED job
        \/ /\ pc[p] \in Recording /\ Goto(p, "settle")
           /\ SetJob(p, [job[p] EXCEPT !.stage = "unrecorded"])
    BY <1>6 DEF Fail
  <2>2. CASE job[p].stage = "route" /\ pc[p] \in {"route", "load", "save"}
             /\ SetJob(p, [job[p] EXCEPT !.worker = "p40"]) /\ Goto(p, "dispatch")
    BY <1>3, <1>4, <1>6, <2>2, After DEF OnItem, PCs
  <2>3. CASE pc[p] = "dispatch" /\ Goto(p, "block") /\ UNCHANGED job
    BY <1>3, <1>6, <2>3, After DEF OnItem, PCs, SameCourse
  <2>4. CASE pc[p] \in Recording /\ Goto(p, "settle")
             /\ SetJob(p, [job[p] EXCEPT !.stage = "unrecorded"])
    BY <1>3, <1>5, <1>6, <2>4, After DEF OnItem, PCs, Recording
  <2> QED
    BY <2>1, <2>2, <2>3, <2>4
<1> QED
  BY <1>1, <1>2, <1>6 DEF Kill

LEMMA NextEvidence ==
  ASSUME OneRunner
  PROVE  BacklogTypeOK /\ Copies /\ Evidence /\ [Next]_vars => Evidence'
<1> SUFFICES ASSUME BacklogTypeOK, Copies, Evidence, [Next]_vars
             PROVE  Evidence'
  OBVIOUS
<1>1. ASSUME NEW p \in Runners, Step(p)
      PROVE  Evidence'
  <2>1. RecordUnknown(p) => Fail(p) /\ pc[p] # "idle"
    BY DEF RecordUnknown
  <2> QED
    BY <1>1, <2>1, StartEvidence, RoutingEvidence, AttemptEvidence, ReviewEvidence,
       FinalEvidence, OutcomeEvidence, MishapEvidence DEF Step
<1>2. ASSUME NEW p \in Runners, Raise(p) \/ Kill(p)
      PROVE  Evidence'
  <2>1. Raise(p) => Fail(p) /\ pc[p] # "idle"
    BY BacklogAssumption DEF Raise
  <2> QED
    BY <1>2, <2>1, MishapEvidence
<1>3. CASE UNCHANGED vars
  BY <1>3 DEF vars, Evidence, Records
<1> QED
  BY <1>1, <1>2, <1>3 DEF Next

LEMMA InitEvidence == Init => Copies /\ Evidence
<1> SUFFICES ASSUME Init PROVE Copies /\ Evidence
  OBVIOUS
<1>1. Copies
  BY DEF Init, Copies, Outdated
<1>2. Records
  BY DEF Init, InitReg, NoRecord, Records, Sound
<1> QED
  BY <1>1, <1>2, NoJobFits DEF Init, Evidence, OnItem

\* The steps that change the list of items.
LEMMA ItemsChange ==
  ASSUME BacklogTypeOK, Copies, NEW p \in Runners, Step(p) \/ Raise(p) \/ Kill(p)
  PROVE  \/ Claim(p) \/ Settle(p) \/ reg'.items = reg.items
         \/ /\ pc[p] \in {"recover", "block", "suspend"}
            /\ Transition(p, job[p].item, "blocked")
<1>1. CASE Wake(p) \/ Resume(p) \/ Inspect(p) \/ Route(p) \/ Load(p) \/ Request(p)
           \/ Record(p) \/ Handle(p) \/ RecordUnknown(p) \/ Raise(p) \/ Kill(p)
  BY <1>1 DEF Wake, Resume, Inspect, Route, Load, Request, Record, Handle, RecordUnknown,
              Raise, Kill, Fail
<1>2. CASE Recover(p) \/ Block(p) \/ Suspend(p)
  BY <1>2 DEF Recover, Block, Suspend
<1>3. CASE Save(p)
  BY <1>3, SaveKeeps
<1>4. CASE Dispatch(p) \/ Recorded(p)
  BY <1>4 DEF Dispatch, Recorded, BacklogTypeOK, RegType
<1>5. CASE \/ Recovered(p) \/ Begin(p) \/ Execute(p) \/ Test(p) \/ SelfReview(p) \/ Review(p)
           \/ Suspended(p) \/ ReviewAgain(p) \/ Final(p) \/ Keep(p) \/ Settled(p)
  <2>1. pc[p] \in {"recovered", "begin", "work", "tests", "self_review", "review",
                   "suspended", "final", "keep", "settled"}
    BY <1>5 DEF Recovered, Begin, Execute, Test, SelfReview, Review, Suspended,
                ReviewAgain, Final, Keep, Settled
  <2>2. job[p].item \in Items
    BY <2>1, LocalsTyped DEF OnItem, PCs
  <2> QED
    BY <1>5, <2>2, CheckpointKeeps
       DEF Recovered, Begin, Execute, Test, SelfReview, Review, Suspended,
           ReviewAgain, Final, Keep, Settled
<1> QED
  BY <1>1, <1>2, <1>3, <1>4, <1>5 DEF Step

\* A transition with a true copy changes one item, and a claim one that is
\* queued.
LEMMA ItemWrites ==
  ASSUME BacklogTypeOK, Copies, NEW p \in Runners, pc[p] \notin Outdated, NEW k \in Items
  PROVE  /\ \A s : Transition(p, k, s) => reg'.items = [reg.items EXCEPT ![k] = s]
         /\ reg.items \in [Items -> Statuses]
BY DEF Transition, Copies, BacklogTypeOK, RegType

LEMMA TransitionQuiet ==
  ASSUME BacklogTypeOK, NEW p, NEW k, NEW s, Transition(p, k, s)
  PROVE  reg'.rec = reg.rec
BY DEF Transition, BacklogTypeOK, RegType

LEMMA ClaimWrites ==
  ASSUME BacklogTypeOK, NEW p \in Runners, Claim(p), reg'.items # reg.items
  PROVE  \E k \in Items : /\ Claimable(k) /\ reg'.items = [reg.items EXCEPT ![k] = "in_progress"]
                          /\ job'[p] = [NoJob EXCEPT !.item = k] /\ pc'[p] = "route"
<1>1. PICK k \in Items : /\ Claimable(k) /\ reg' = [reg EXCEPT !.items[k] = "in_progress"]
                         /\ SetJob(p, [NoJob EXCEPT !.item = k]) /\ Goto(p, "route")
  BY DEF Claim
<1>2. reg'.items = [reg.items EXCEPT ![k] = "in_progress"]
  BY <1>1 DEF BacklogTypeOK, RegType
<1> QED
  BY <1>1, <1>2, After

\* With one runner, wherever it is killed or a call raises: when an item is
\* completed, its record says of the worker, the tests, the review and the
\* final verification that they have passed.
THEOREM CompletionsHaveEvidence ==
  ASSUME OneRunner
  PROVE  Spec => EvidenceFirst
<1>1. BacklogTypeOK /\ Copies /\ Evidence /\ [Next]_vars
        => [\A i \in Items :
              reg.items[i] # "completed" /\ reg'.items[i] = "completed"
                => reg.rec[i].passed = Gates]_vars
  <2> SUFFICES ASSUME BacklogTypeOK, Copies, Evidence, NEW p \in Runners,
                      Step(p) \/ Raise(p) \/ Kill(p), NEW i \in Items,
                      reg.items[i] # "completed", reg'.items[i] = "completed"
               PROVE  reg.rec[i].passed = Gates
    BY DEF vars, Next
  <2>1. reg.items \in [Items -> Statuses]
    BY DEF BacklogTypeOK, RegType
  <2>2. pc[p] = "settle" /\ job[p].item = i /\ job[p].final = "passed"
    <3>1. CASE Claim(p)
      BY <2>1, <3>1, ClaimWrites
    <3>2. CASE pc[p] \in {"recover", "block", "suspend"}
               /\ Transition(p, job[p].item, "blocked")
      <4>1. job[p].item \in Items /\ pc[p] \notin Outdated
        BY <3>2, LocalsTyped DEF OnItem, PCs, Outdated
      <4>2. reg'.items = [reg.items EXCEPT ![job[p].item] = "blocked"]
        BY <3>2, <4>1, ItemWrites
      <4> QED
        BY <2>1, <4>1, <4>2
    <3>3. CASE Settle(p)
      <4>1. job[p].item \in Items /\ pc[p] \notin Outdated /\ pc[p] = "settle"
        BY <3>3, LocalsTyped DEF Settle, OnItem, PCs, Outdated
      <4>2. PICK s \in Outcomes(job[p]) : Transition(p, job[p].item, s)
        BY <3>3 DEF Settle
      <4>3. reg'.items = [reg.items EXCEPT ![job[p].item] = s]
        BY <4>1, <4>2, ItemWrites
      <4>4. s = "completed" /\ i = job[p].item
        BY <2>1, <4>1, <4>3
      <4> QED
        BY <4>1, <4>2, <4>4 DEF Outcomes
    <3> QED
      BY <3>1, <3>2, <3>3, ItemsChange
  <2>3. Fits(job[p], pc[p]) /\ Backed(job[p], reg.rec[i].passed)
        /\ reg.rec[i] \in RecordType
    BY <2>2, LocalsFit DEF OnItem, PCs
  <2> QED
    BY <2>2, <2>3 DEF Fits, Backed, Candidate, Implemented, RecordType, Gates
<1> QED
  BY <1>1, InitTyped, NextTyped, InitEvidence, NextCopies, NextEvidence, PTL
     DEF Spec, EvidenceFirst

(***************************************************************************)
(* The queue.  A step that changes an item's status must find it in        *)
(* progress or blocked: the locals know which by the mode of the run.      *)
(* Nothing is in progress while a candidate awaits a gate, so the claim of *)
(* another item finds no candidate left.  That the candidate's own item is *)
(* blocked meanwhile holds only if the records are settled.                *)
(***************************************************************************)

Busy == With(reg.items, "in_progress")

\* The item's status has been written and the last checkpoint has not.
Closing == {"recovered", "suspended", "settled"}

\* The one place where a kill or an error leaves a settled item without its
\* last checkpoint: a completed or queued item then still has a candidate.
RecordsSettled == "settled" \notin CrashPoints \cup FaultPoints

Withheld(j, c, items, waiting) ==
  /\ c \in OnItem \ Closing /\ j.mode \in {"review", "final"} => items[j.item] = "blocked"
  /\ c = "suspended" => items[j.item] = "blocked"
  /\ \A i \in waiting : items[i] = "blocked" \/ (c = "settled" /\ j.item = i)

Place(j, c, busy, items, waiting) ==
  /\ c \in OnItem \ Closing /\ j.mode \in {"run", "exception"} => busy = {j.item}
  /\ c \in OnItem \ Closing /\ j.mode \in {"review", "final"} => busy = {}
  /\ c \in Closing => busy = {}
  /\ c = "settled" => items[j.item] = j.status /\ (Unverified(j) => j.status = "blocked")
  /\ c \in {"claim", "inspect"} => waiting = {}
  /\ RecordsSettled => Withheld(j, c, items, waiting)

OneAtATime == Busy = {} \/ (Pending = {} /\ \E i \in Items : Busy = {i})

Queue == OneAtATime /\ \A p \in Runners : Place(job[p], pc[p], Busy, reg.items, Pending)

LEMMA StepQueue ==
  ASSUME OneRunner, NEW p \in Runners, OneAtATime',
         Place(job'[p], pc'[p], Busy', reg'.items, Pending')
  PROVE  Queue'
BY DEF OneRunner, Queue

\* The candidates that await a gate, after a checkpoint.
LEMMA PendingAfter ==
  ASSUME BacklogTypeOK, NEW i \in Items, NEW phase, NEW r \in RecordType,
         Checkpoint(i, phase, r)
  PROVE  /\ phase \in PendingPhases => Pending' = Pending \cup {i}
         /\ phase \notin PendingPhases => Pending' = Pending \ {i}
BY CheckpointWrites DEF Pending

\* A step of a run, up to the item's transition.
LEMMA StaysQueue ==
  ASSUME OneRunner, BacklogTypeOK, Queue, NEW p \in Runners,
         pc[p] \in OnItem \ Closing, pc'[p] \in OnItem \ Closing,
         reg'.items = reg.items,
         job'[p].mode = job[p].mode, job'[p].item = job[p].item,
         \/ Pending' \subseteq Pending
         \/ /\ job[p].mode \in {"review", "final"}
            /\ Pending' \subseteq Pending \cup {job[p].item}
  PROVE  Queue'
<1>1. Place(job[p], pc[p], Busy, reg.items, Pending) /\ OneAtATime /\ job[p].mode \in Modes
  BY LocalsTyped DEF Queue, JobType
<1>2. Busy' = Busy
  BY DEF Busy, With
<1>3. pc[p] \notin Closing \cup {"claim", "inspect"}
      /\ pc'[p] \notin Closing \cup {"claim", "inspect"}
  BY DEF OnItem
<1>4. CASE job[p].mode \in {"run", "exception"}
  <2>1. Busy = {job[p].item} /\ Pending = {}
    BY <1>1, <1>4 DEF Place, Withheld, OneAtATime
  <2>2. Pending' = {}
    BY <1>4, <2>1
  <2>3. OneAtATime'
    BY <1>1, <1>2, <2>1, <2>2 DEF OneAtATime
  <2>4. Place(job'[p], pc'[p], Busy', reg'.items, Pending')
    BY <1>2, <1>3, <1>4, <2>1, <2>2 DEF Place, Withheld, Closing
  <2> QED
    BY <2>3, <2>4, StepQueue
<1>5. CASE job[p].mode \in {"review", "final"}
  <2>1. Busy = {}
        /\ (RecordsSettled => /\ reg.items[job[p].item] = "blocked"
                              /\ \A i \in Pending : reg.items[i] = "blocked")
    BY <1>1, <1>3, <1>5 DEF Place, Withheld, Closing
  <2>2. OneAtATime'
    BY <1>2, <2>1 DEF OneAtATime
  <2>3. RecordsSettled => \A i \in Pending' : reg'.items[i] = "blocked"
    BY <2>1
  <2>4. Place(job'[p], pc'[p], Busy', reg'.items, Pending')
    BY <1>2, <1>3, <1>5, <2>1, <2>3 DEF Place, Withheld, Closing
  <2> QED
    BY <2>2, <2>4, StepQueue
<1> QED
  BY <1>1, <1>4, <1>5 DEF Modes

\* A step that leaves the item, or wakes up, with the statuses as they are.
LEMMA LeavesQueue ==
  ASSUME OneRunner, BacklogTypeOK, Queue, NEW p \in Runners,
         RecordsSettled => pc[p] # "settled", pc'[p] \in {"idle", "resume", "handle"},
         reg'.items = reg.items,
         \/ Pending' \subseteq Pending
         \/ /\ Busy = {} /\ (RecordsSettled => reg.items[job[p].item] = "blocked")
            /\ Pending' \subseteq Pending \cup {job[p].item}
  PROVE  Queue'
<1>1. Place(job[p], pc[p], Busy, reg.items, Pending) /\ OneAtATime
  BY DEF Queue
<1>2. Busy' = Busy
  BY DEF Busy, With
<1>3. OneAtATime'
  BY <1>1, <1>2 DEF OneAtATime
<1>4. RecordsSettled => \A i \in Pending' : reg'.items[i] = "blocked"
  BY <1>1 DEF Place, Withheld
<1>5. Place(job'[p], pc'[p], Busy', reg'.items, Pending')
  BY <1>4 DEF Place, Withheld, OnItem, Closing
<1> QED
  BY <1>3, <1>5, StepQueue

\* The transition of an item out of a run, or of a resumed one.
LEMMA ClosesQueue ==
  ASSUME OneRunner, BacklogTypeOK, Queue, NEW p \in Runners,
         pc[p] \in OnItem \ Closing, NEW s \in Statuses \ {"in_progress"},
         reg'.items = [reg.items EXCEPT ![job[p].item] = s], reg'.rec = reg.rec,
         job'[p].item = job[p].item \/ pc'[p] = "idle",
         \/ pc'[p] \in {"idle", "recovered"} /\ job[p].mode = "run"
         \/ pc'[p] = "suspended" /\ s = "blocked" /\ job[p].mode = "run"
         \/ /\ pc'[p] = "settled" /\ job'[p].status = s
            /\ Unverified(job'[p]) => s = "blocked"
  PROVE  Queue'
<1>1. Place(job[p], pc[p], Busy, reg.items, Pending) /\ OneAtATime
      /\ job[p].mode \in Modes /\ job[p].item \in Items
      /\ reg.items \in [Items -> Statuses]
  BY LocalsTyped DEF Queue, JobType, BacklogTypeOK, RegType
<1>2. Pending' = Pending
  BY DEF Pending
<1>3. pc[p] \notin Closing
  OBVIOUS
<1>4. Busy \subseteq {job[p].item}
  BY <1>1, <1>3 DEF Place, Withheld, Modes
<1>5. Busy' = {}
  BY <1>1, <1>4 DEF Busy, With
<1>6. RecordsSettled => \A i \in Pending : reg.items[i] = "blocked"
  BY <1>1, <1>3 DEF Place, Withheld, Closing
<1>7. job[p].mode = "run" => Pending = {}
  BY <1>1, <1>3 DEF Place, Withheld, OneAtATime
<1>8. reg'.items[job[p].item] = s /\ \A i \in Items \ {job[p].item} : reg'.items[i] = reg.items[i]
  BY <1>1
<1>9. Place(job'[p], pc'[p], Busy', reg'.items, Pending')
  <2>1. CASE pc'[p] \in {"idle", "recovered", "suspended"}
    <3>1. Pending' = {}
      BY <1>2, <1>7, <2>1
    <3> QED
      BY <1>5, <1>8, <2>1, <3>1 DEF Place, Withheld, OnItem, Closing
  <2>2. CASE pc'[p] = "settled"
    <3>1. \A i \in Pending' : i \in Items
      BY <1>2 DEF Pending
    <3> QED
      BY <1>2, <1>5, <1>6, <1>8, <2>2, <3>1 DEF Place, Withheld, OnItem, Closing
  <2> QED
    BY <2>1, <2>2
<1>10. OneAtATime'
  BY <1>5 DEF OneAtATime
<1> QED
  BY <1>9, <1>10, StepQueue

LEMMA StartQueue ==
  ASSUME OneRunner, BacklogTypeOK, Copies, Evidence, Queue, NEW p \in Runners,
         Wake(p) \/ Resume(p) \/ Claim(p) \/ Inspect(p) \/ Recover(p) \/ Recovered(p)
  PROVE  Queue'
<1>0. Place(job[p], pc[p], Busy, reg.items, Pending) /\ OneAtATime
      /\ reg.items \in [Items -> Statuses]
  BY DEF Queue, BacklogTypeOK, RegType
<1>1. CASE Wake(p)
  BY <1>1, After, LeavesQueue DEF Wake, Pending
<1>2. CASE Resume(p)
  <2>1. reg' = reg /\ pc[p] = "resume"
    BY <1>2 DEF Resume
  <2>2. Busy' = Busy /\ Pending' = Pending /\ OneAtATime'
    BY <1>0, <2>1 DEF Busy, With, Pending, OneAtATime
  <2>3. RecordsSettled => \A i \in Pending : reg.items[i] = "blocked"
    BY <1>0, <2>1 DEF Place, Withheld
  <2>4. CASE Pending = {} /\ Goto(p, "claim")
    <3>1. pc'[p] = "claim"
      BY <2>4, After
    <3>2. Place(job'[p], pc'[p], Busy', reg'.items, Pending')
      BY <2>2, <2>4, <3>1 DEF Place, Withheld, OnItem, Closing
    <3> QED
      BY <2>2, <3>2, StepQueue
  <2>5. ASSUME NEW i \in Items, Earliest(i, Pending), SetJob(p, Resumed(i)),
               Goto(p, IF reg.rec[i].phase = "review_pending" THEN "review" ELSE "final")
        PROVE  Queue'
    <3>1. i \in Pending /\ pc'[p] \in {"review", "final"} /\ job'[p] = Resumed(i)
      BY <2>5, After DEF Earliest
    <3>2. job'[p].item = i /\ job'[p].mode \in {"review", "final"}
      BY <3>1 DEF Resumed, NoJob
    <3>3. Busy = {} /\ (RecordsSettled => reg.items[i] = "blocked")
      BY <1>0, <2>3, <3>1 DEF OneAtATime
    <3>4. Place(job'[p], pc'[p], Busy', reg'.items, Pending')
      BY <2>1, <2>2, <2>3, <3>1, <3>2, <3>3 DEF Place, Withheld, Closing
    <3> QED
      BY <2>2, <3>4, StepQueue
  <2> QED
    BY <1>2, <2>4, <2>5 DEF Resume
<1>3. CASE Claim(p)
  <2>1. reg'.rec = reg.rec /\ pc[p] = "claim"
    BY <1>3 DEF Claim, BacklogTypeOK, RegType
  <2>2. Pending' = Pending /\ Pending = {}
    BY <1>0, <2>1 DEF Pending, Place, Withheld
  <2>3. CASE reg'.items # reg.items
    <3>1. PICK k \in Items :
            /\ Claimable(k) /\ reg'.items = [reg.items EXCEPT ![k] = "in_progress"]
            /\ job'[p] = [NoJob EXCEPT !.item = k] /\ pc'[p] = "route"
      BY <1>3, <2>3, ClaimWrites
    <3>2. Busy' = {k}
      BY <1>0, <3>1 DEF Claimable, Busy, With
    <3>3. job'[p].mode = "run" /\ job'[p].item = k
      BY <3>1 DEF NoJob
    <3>4. Place(job'[p], pc'[p], Busy', reg'.items, Pending') /\ OneAtATime'
      BY <2>2, <3>1, <3>2, <3>3 DEF Place, Withheld, Closing, OneAtATime
    <3> QED
      BY <3>4, StepQueue
  <2>4. CASE reg'.items = reg.items
    <3>1. CASE Return(p)
      BY <2>1, <2>2, <2>4, <3>1, After, LeavesQueue
    <3>2. CASE Goto(p, "inspect")
      <4>1. pc'[p] = "inspect" /\ Busy' = Busy /\ OneAtATime'
        BY <1>0, <2>2, <2>4, <3>2, After DEF Busy, With, OneAtATime
      <4>2. Place(job'[p], pc'[p], Busy', reg'.items, Pending')
        BY <2>2, <4>1 DEF Place, Withheld, OnItem, Closing
      <4> QED
        BY <4>1, <4>2, StepQueue
    <3>3. ASSUME NEW i \in Items, Claimable(i), reg' = [reg EXCEPT !.items[i] = "in_progress"]
          PROVE  FALSE
      <4>1. reg'.items[i] = "in_progress" /\ reg.items[i] = "queued"
        BY <3>3 DEF Claimable, Earliest, With, BacklogTypeOK, RegType
      <4> QED
        BY <2>4, <4>1
    <3> QED
      BY <1>3, <3>1, <3>2, <3>3 DEF Claim
  <2> QED
    BY <2>3, <2>4
<1>4. CASE Inspect(p)
  <2>1. reg' = reg /\ pc[p] = "inspect" /\ held[p] = reg.items
    BY <1>4 DEF Inspect, Copies, Outdated
  <2>2. CASE Return(p)
    BY <2>1, <2>2, After, LeavesQueue DEF Pending
  <2>3. ASSUME NEW i \in Items, Earliest(i, With(held[p], "in_progress")),
               SetJob(p, [NoJob EXCEPT !.item = i]), Goto(p, "recover")
        PROVE  Queue'
    <3>1. Busy = {i}
      BY <1>0, <2>1, <2>3 DEF Earliest, Busy, OneAtATime
    <3>2. job'[p] = [NoJob EXCEPT !.item = i] /\ pc'[p] = "recover"
      BY <2>3, After
    <3>3. job'[p].mode = "run" /\ job'[p].item = i
      BY <3>2 DEF NoJob
    <3>4. Busy' = Busy /\ Pending' = Pending /\ Pending = {} /\ OneAtATime'
      BY <1>0, <2>1 DEF Busy, With, Pending, OneAtATime, Place, Withheld
    <3>5. Place(job'[p], pc'[p], Busy', reg'.items, Pending')
      BY <3>1, <3>2, <3>3, <3>4 DEF Place, Withheld, Closing
    <3> QED
      BY <3>4, <3>5, StepQueue
  <2> QED
    BY <1>4, <2>2, <2>3 DEF Inspect
<1>5. CASE Recover(p)
  <2>1. pc[p] = "recover" /\ pc[p] \in OnItem \ Closing /\ pc[p] \notin Outdated
    BY <1>5 DEF Recover, OnItem, PCs, Closing, Outdated
  <2>2. job[p].mode = "run" /\ job[p].item \in Items
    BY <2>1, LocalsFit DEF Fits, RunSteps
  <2>3. Transition(p, job[p].item, "blocked")
    BY <1>5 DEF Recover
  <2>6. reg'.rec = reg.rec /\ reg'.items = [reg.items EXCEPT ![job[p].item] = "blocked"]
    BY <2>1, <2>2, <2>3, ItemWrites, TransitionQuiet
  <2>4. pc'[p] = "recovered"
    BY <1>5, After DEF Recover
  <2>5. job'[p].item = job[p].item
    BY <1>5 DEF Recover
  <2> QED
    BY <2>1, <2>2, <2>4, <2>5, <2>6, ClosesQueue DEF Statuses
<1>6. CASE Recovered(p)
  <2>0. pc[p] = "recovered" /\ pc[p] \in OnItem
    BY <1>6 DEF Recovered, OnItem, PCs
  <2>1. /\ job[p].item \in Items /\ pc'[p] = "idle"
        /\ Checkpoint(job[p].item, "recovery_required", reg.rec[job[p].item])
        /\ reg.rec[job[p].item] \in RecordType
    BY <1>6, <2>0, After, LocalsFit DEF Recovered
  <2>2. reg'.items = reg.items /\ Pending' \subseteq Pending
    BY <2>1, CheckpointKeeps, PendingAfter DEF PendingPhases
  <2> QED
    BY <2>0, <2>1, <2>2, LeavesQueue
<1> QED
  BY <1>1, <1>2, <1>3, <1>4, <1>5, <1>6

LEMMA RoutingQueue ==
  ASSUME OneRunner, BacklogTypeOK, Copies, Evidence, Queue, NEW p \in Runners,
         Route(p) \/ Load(p) \/ Save(p) \/ Dispatch(p) \/ Request(p) \/ Block(p)
  PROVE  Queue'
<1>1. reg'.rec = reg.rec
  BY SaveKeeps DEF Route, Load, Dispatch, Request, Block, Transition, BacklogTypeOK, RegType
<1>2. CASE Block(p)
  <2>1. pc[p] = "block" /\ pc[p] \in OnItem \ Closing /\ pc[p] \notin Outdated
    BY <1>2 DEF Block, OnItem, PCs, Closing, Outdated
  <2>2. job[p].mode = "run" /\ job[p].item \in Items
    BY <2>1, LocalsFit DEF Fits, RunSteps
  <2>3. reg'.items = [reg.items EXCEPT ![job[p].item] = "blocked"]
    BY <1>2, <2>1, <2>2, ItemWrites DEF Block
  <2>4. pc'[p] = "idle"
    BY <1>2, After DEF Block
  <2> QED
    BY <1>1, <2>1, <2>2, <2>3, <2>4, ClosesQueue DEF Statuses
<1>3. CASE Route(p) \/ Load(p) \/ Save(p) \/ Dispatch(p) \/ Request(p)
  <2>1. pc[p] \in {"route", "load", "save", "dispatch", "request"}
    BY <1>3 DEF Route, Load, Save, Dispatch, Request
  <2>2. pc'[p] \in {"load", "save", "dispatch", "recorded", "request", "begin"}
    BY <1>3, After DEF Route, Load, Save, Dispatch, Request
  <2>3. SameCourse(job[p], job'[p])
    BY <1>3, RoutingCourse
  <2>4. reg'.items = reg.items
    BY <1>3, SaveKeeps DEF Route, Load, Dispatch, Request, BacklogTypeOK, RegType
  <2> QED
    BY <1>1, <2>1, <2>2, <2>3, <2>4, StaysQueue DEF SameCourse, OnItem, PCs, Closing, Pending
<1> QED
  BY <1>2, <1>3

LEMMA GatesQueue ==
  ASSUME OneRunner, BacklogTypeOK, Copies, Evidence, Queue, NEW p \in Runners,
         \/ Begin(p) \/ Execute(p) \/ Test(p) \/ SelfReview(p)
         \/ Review(p) \/ Suspend(p) \/ Suspended(p)
  PROVE  Queue'
<1> DEFINE i == job[p].item
           r == reg.rec[i]
<1>0. /\ pc[p] \in OnItem /\ pc[p] \notin Closing \ {"suspended"} /\ job[p].mode = "run"
      /\ job[p] \in JobType /\ r \in RecordType /\ i \in Items
  <2>1. pc[p] \in {"begin", "work", "tests", "self_review", "review", "suspend", "suspended"}
    BY DEF Begin, Execute, Test, SelfReview, Review, Suspend, Suspended
  <2>2. pc[p] \in OnItem /\ pc[p] \notin Closing \ {"suspended"}
    BY <2>1 DEF OnItem, PCs, Closing
  <2>3. job[p].mode = "run"
    BY <2>1, LocalsFit DEF Fits, RunSteps, Begin, Execute, Test, SelfReview, Review, Suspend,
                           Suspended
  <2> QED
    BY <2>2, <2>3, LocalsFit
<1>1. ASSUME NEW phase \in Phases \ PendingPhases, NEW s \in RecordType,
             Checkpoint(i, phase, s), pc[p] # "suspended",
             pc'[p] \in {"work", "tests", "self_review", "review", "suspend", "final", "record"},
             job'[p].mode = job[p].mode, job'[p].item = i
      PROVE  Queue'
  <2>1. reg'.items = reg.items /\ Pending' \subseteq Pending
    BY <1>0, <1>1, CheckpointKeeps, PendingAfter
  <2>2. pc[p] \in OnItem \ Closing /\ pc'[p] \in OnItem \ Closing
    BY <1>0, <1>1 DEF OnItem, PCs, Closing
  <2> QED
    BY <1>1, <2>1, <2>2, StaysQueue
<1>2. CASE Begin(p)
  <2> DEFINE s == [r EXCEPT !.worker = job[p].worker, !.owner = <<p, life[p].kills>>]
  <2>1. s \in RecordType
    BY <1>0, RecordBegun DEF JobType, BacklogTypeOK
  <2>2. job'[p] = job[p] /\ pc'[p] = "work" /\ Checkpoint(i, "executing", s) /\ pc[p] = "begin"
    BY <1>2, After DEF Begin
  <2> HIDE DEF s
  <2> QED
    BY <1>1, <2>1, <2>2 DEF Phases, PendingPhases
<1>3. CASE Execute(p)
  <2>1. PICK v, c : /\ job'[p] = [job[p] EXCEPT !.result = v, !.class = c]
                    /\ Checkpoint(i, "worker_complete", WithResult(r, "result", v))
    BY <1>3, After DEF Execute
  <2>2. pc'[p] = "tests" /\ pc[p] = "work"
    BY <1>3, After DEF Execute
  <2>3. job'[p].mode = job[p].mode /\ job'[p].item = i
    BY <1>0, <2>1 DEF JobType
  <2>4. WithResult(r, "result", v) \in RecordType
    BY <1>0, ResultTyped DEF Gates
  <2> QED
    BY <1>1, <2>1, <2>2, <2>3, <2>4 DEF Phases, PendingPhases
<1>4. CASE Test(p)
  <2>1. PICK v : /\ job'[p] = [job[p] EXCEPT !.tests = v]
                 /\ Checkpoint(i, "tests_complete", WithResult(r, "tests", v))
    BY <1>4, After DEF Test
  <2>2. pc'[p] \in {"self_review", "review"} /\ pc[p] = "tests"
    BY <1>4, After DEF Test
  <2>3. job'[p].mode = job[p].mode /\ job'[p].item = i
    BY <1>0, <2>1 DEF JobType
  <2>4. WithResult(r, "tests", v) \in RecordType
    BY <1>0, ResultTyped DEF Gates
  <2> QED
    BY <1>1, <2>1, <2>2, <2>3, <2>4 DEF Phases, PendingPhases
<1>5. CASE SelfReview(p)
  <2>1. pc[p] = "self_review" /\ pc'[p] = "review" /\ Checkpoint(i, "self_review_complete", r)
    BY <1>5, After DEF SelfReview
  <2>2. \/ job'[p] = job[p]
        \/ job'[p] = [job[p] EXCEPT !.result = "rejected", !.class = "substantive",
                                    !.review = "rejected"]
    BY <1>5, After DEF SelfReview
  <2>3. job'[p].mode = job[p].mode /\ job'[p].item = i
    BY <1>0, <2>2 DEF JobType
  <2> QED
    BY <1>0, <1>1, <2>1, <2>3 DEF Phases, PendingPhases
<1>6. CASE Review(p)
  <2>1. PICK v : /\ job'[p] = [job[p] EXCEPT !.review = v]
                 /\ Checkpoint(i, "review_complete", WithResult(r, "review", v))
                 /\ \E next \in {"suspend", "final", "record"} : Goto(p, next)
    BY <1>6, After DEF Review
  <2>2. pc'[p] \in {"suspend", "final", "record"} /\ pc[p] = "review"
    BY <1>6, <2>1, After DEF Review
  <2>3. job'[p].mode = job[p].mode /\ job'[p].item = i
    BY <1>0, <2>1 DEF JobType
  <2>4. WithResult(r, "review", v) \in RecordType
    BY <1>0, ResultTyped DEF Gates
  <2> QED
    BY <1>1, <2>1, <2>2, <2>3, <2>4 DEF Phases, PendingPhases
<1>7. CASE Suspend(p)
  <2>1. pc[p] = "suspend" /\ pc'[p] = "suspended" /\ job'[p] = job[p]
        /\ Transition(p, i, "blocked")
    BY <1>7, After DEF Suspend
  <2>2. reg'.rec = reg.rec /\ reg'.items = [reg.items EXCEPT ![i] = "blocked"]
    BY <1>0, <2>1, ItemWrites, TransitionQuiet DEF Outdated
  <2> QED
    BY <1>0, <2>1, <2>2, ClosesQueue DEF Statuses, Closing
<1>8. CASE Suspended(p)
  <2> DEFINE s == [r EXCEPT !.worker = job[p].worker, !.passed = Passes(job[p], @)]
  <2>1. s \in RecordType
    BY <1>0, KeptTyped DEF JobType
  <2>2. Checkpoint(i, "review_pending", s) /\ pc'[p] = "idle" /\ pc[p] = "suspended"
    BY <1>8, After DEF Suspended
  <2> HIDE DEF s
  <2>3. Busy = {} /\ (RecordsSettled => reg.items[i] = "blocked")
    BY <2>2 DEF Queue, Place, Withheld, Closing
  <2>4. reg'.items = reg.items /\ Pending' \subseteq Pending \cup {i}
    BY <1>0, <2>1, <2>2, CheckpointKeeps, PendingAfter
  <2> QED
    BY <2>2, <2>3, <2>4, LeavesQueue
<1> QED
  BY <1>2, <1>3, <1>4, <1>5, <1>6, <1>7, <1>8

LEMMA ResumedQueue ==
  ASSUME OneRunner, BacklogTypeOK, Copies, Evidence, Queue, NEW p \in Runners,
         ReviewAgain(p) \/ Final(p) \/ Keep(p)
  PROVE  Queue'
<1> DEFINE i == job[p].item
           r == reg.rec[i]
<1>0. /\ pc[p] \in {"review", "final", "keep"} /\ pc[p] \in OnItem \ Closing
      /\ job[p] \in JobType /\ r \in RecordType /\ i \in Items /\ Fits(job[p], pc[p])
  <2>1. pc[p] \in {"review", "final", "keep"}
    BY DEF ReviewAgain, Final, Keep
  <2> QED
    BY <2>1, LocalsFit DEF OnItem, PCs, Closing
<1>1. ASSUME NEW phase, NEW s \in RecordType, Checkpoint(i, phase, s),
             phase \in PendingPhases => job[p].mode \in {"review", "final"},
             \/ pc'[p] = "idle"
             \/ /\ pc'[p] \in {"keep", "final", "record"}
                /\ job'[p].mode = job[p].mode /\ job'[p].item = i
      PROVE  Queue'
  <2>1. reg'.items = reg.items
    BY <1>0, <1>1, CheckpointKeeps
  <2>2. \/ Pending' \subseteq Pending
        \/ job[p].mode \in {"review", "final"} /\ Pending' \subseteq Pending \cup {i}
    BY <1>0, <1>1, PendingAfter
  <2>3. CASE pc'[p] = "idle"
    <3>1. job[p].mode \in {"review", "final"}
            => Busy = {} /\ (RecordsSettled => reg.items[i] = "blocked")
      BY <1>0 DEF Queue, Place, Withheld
    <3>2. pc[p] # "settled"
      BY <1>0
    <3> QED
      BY <2>1, <2>2, <2>3, <3>1, <3>2, LeavesQueue
  <2>4. CASE pc'[p] # "idle"
    <3>1. pc'[p] \in OnItem \ Closing
      BY <1>1, <2>4 DEF OnItem, PCs, Closing
    <3> QED
      BY <1>0, <1>1, <2>1, <2>2, <2>4, <3>1, StaysQueue
  <2> QED
    BY <2>3, <2>4
<1>2. CASE ReviewAgain(p)
  <2>1. PICK v : /\ Checkpoint(i, "review_pending", WithResult(r, "review", v))
                 /\ \/ pc'[p] = "idle"
                    \/ pc'[p] = "record" /\ job'[p] = [job[p] EXCEPT !.review = v]
    BY <1>2, After DEF ReviewAgain
  <2>2. job[p].mode = "review"
    BY <1>2 DEF ReviewAgain
  <2>3. pc'[p] # "idle" => job'[p].mode = job[p].mode /\ job'[p].item = i
    BY <1>0, <2>1 DEF JobType
  <2>4. WithResult(r, "review", v) \in RecordType
    BY <1>0, ResultTyped DEF Gates
  <2> QED
    BY <1>1, <2>1, <2>2, <2>3, <2>4
<1>3. CASE Final(p)
  <2>1. PICK v : LET j == [job[p] EXCEPT !.final = v] IN
                 /\ Checkpoint(i, FinalPhase(j.mode), WithResult(r, "final", v))
                 /\ \/ Return(p)
                    \/ (Goto(p, "keep") \/ Goto(p, "record")) /\ SetJob(p, j)
    BY <1>3 DEF Final
  <2> DEFINE j == [job[p] EXCEPT !.final = v]
  <2>2. j.mode = job[p].mode /\ j.item = i
    BY <1>0 DEF JobType
  <2>3. WithResult(r, "final", v) \in RecordType
    BY <1>0, ResultTyped DEF Gates
  <2>4. FinalPhase(j.mode) \in PendingPhases => job[p].mode \in {"review", "final"}
    BY <2>2 DEF FinalPhase, PendingPhases
  <2>5. pc'[p] = "idle" \/ (pc'[p] \in {"keep", "record"} /\ job'[p] = j)
    BY <2>1, After
  <2> HIDE DEF j
  <2> QED
    BY <1>1, <2>1, <2>2, <2>3, <2>4, <2>5 DEF j
<1>4. CASE Keep(p)
  <2> DEFINE s == [r EXCEPT !.worker = job[p].worker, !.passed = Passes(job[p], @)]
  <2>1. s \in RecordType
    BY <1>0, KeptTyped DEF JobType
  <2>2. Checkpoint(i, "final_verification_pending", s)
        /\ \/ pc'[p] = "idle"
           \/ pc'[p] = "final" /\ job'[p] = [job[p] EXCEPT !.stage = "final"]
    BY <1>4, After DEF Keep
  <2>3. pc'[p] # "idle" => job'[p].mode = job[p].mode /\ job'[p].item = i
    BY <1>0, <2>2 DEF JobType
  <2>4. job[p].mode = "review"
    BY <1>0, <1>4 DEF Keep, Fits
  <2> HIDE DEF s
  <2> QED
    BY <1>1, <2>1, <2>2, <2>3, <2>4
<1> QED
  BY <1>2, <1>3, <1>4

LEMMA OutcomeQueue ==
  ASSUME OneRunner, BacklogTypeOK, Copies, Evidence, Queue, NEW p \in Runners,
         Record(p) \/ Recorded(p) \/ Settle(p) \/ Settled(p)
  PROVE  Queue'
<1> DEFINE i == job[p].item
           r == reg.rec[i]
<1>0. /\ pc[p] \in {"record", "recorded", "settle", "settled"} /\ pc[p] \in OnItem
      /\ job[p] \in JobType /\ r \in RecordType /\ i \in Items /\ Fits(job[p], pc[p])
  <2>1. pc[p] \in {"record", "recorded", "settle", "settled"}
    BY DEF Record, Recorded, Settle, Settled
  <2> QED
    BY <2>1, LocalsFit DEF OnItem, PCs
<1>1. CASE Record(p)
  <2>1. PICK n, round : SetJob(p, [job[p] EXCEPT !.next = n, !.round = round])
    BY <1>1 DEF Record
  <2>2. job'[p] = [job[p] EXCEPT !.next = n, !.round = round]
    BY <2>1, After
  <2>3. job'[p].mode = job[p].mode /\ job'[p].item = i
    BY <1>0, <2>2 DEF JobType
  <2>4. pc[p] = "record" /\ pc'[p] = "load" /\ reg' = reg
    BY <1>1, After DEF Record
  <2> QED
    BY <2>3, <2>4, StaysQueue DEF OnItem, PCs, Closing, Pending
<1>2. CASE Recorded(p)
  <2>1. reg'.rec = reg.rec /\ reg'.items = reg.items
    BY <1>2 DEF Recorded, BacklogTypeOK, RegType
  <2>2. job'[p] = [job[p] EXCEPT !.stage = "final"] \/ job'[p] = job[p]
    BY <1>2, After DEF Recorded
  <2>3. job'[p].mode = job[p].mode /\ job'[p].item = i
    BY <1>0, <2>2 DEF JobType
  <2>4. pc[p] = "recorded" /\ pc'[p] \in {"record", "keep", "settle"}
    BY <1>2, After DEF Recorded
  <2> QED
    BY <2>1, <2>3, <2>4, StaysQueue DEF OnItem, PCs, Closing, Pending
<1>3. CASE Settle(p)
  <2>1. PICK s \in Outcomes(job[p]) :
          Transition(p, i, s) /\ job'[p] = [job[p] EXCEPT !.status = s]
    BY <1>3, After DEF Settle
  <2>2. pc[p] = "settle" /\ pc'[p] = "settled"
    BY <1>3, After DEF Settle
  <2>3. reg'.rec = reg.rec /\ reg'.items = [reg.items EXCEPT ![i] = s]
    BY <1>0, <2>1, <2>2, ItemWrites, TransitionQuiet DEF Outdated
  <2>4. job'[p].status = s /\ job'[p].item = i /\ (Unverified(job'[p]) <=> Unverified(job[p]))
    BY <1>0, <2>1 DEF JobType, Unverified
  <2>5. s \in Statuses \ {"in_progress"} /\ (Unverified(job[p]) => s = "blocked")
    BY <2>1 DEF Outcomes, Statuses
  <2>6. pc[p] \in OnItem \ Closing
    BY <2>2 DEF OnItem, PCs, Closing
  <2> QED
    BY <2>2, <2>3, <2>4, <2>5, <2>6, ClosesQueue
<1>4. CASE Settled(p)
  <2>1. pc[p] = "settled" /\ pc'[p] = "idle" /\ Checkpoint(i, LastPhase(job[p]), r)
    BY <1>4, After DEF Settled
  <2>2. Place(job[p], pc[p], Busy, reg.items, Pending)
    BY DEF Queue
  <2>3. reg'.items = reg.items
    BY <1>0, <2>1, CheckpointKeeps
  <2>4. LastPhase(job[p]) \in PendingPhases => Unverified(job[p])
    BY <1>0 DEF LastPhase, PendingPhases, JobType, Statuses
  <2>5. RecordsSettled => \A k \in Pending' : reg.items[k] = "blocked"
    <3>1. CASE LastPhase(job[p]) \in PendingPhases
      <4>1. Pending' = Pending \cup {i}
        BY <1>0, <2>1, <3>1, PendingAfter
      <4>2. reg.items[i] = "blocked"
        BY <2>1, <2>2, <2>4, <3>1 DEF Place, Withheld
      <4> QED
        BY <2>2, <4>1, <4>2 DEF Place, Withheld
    <3>2. CASE LastPhase(job[p]) \notin PendingPhases
      <4>1. Pending' = Pending \ {i}
        BY <1>0, <2>1, <3>2, PendingAfter
      <4> QED
        BY <2>2, <4>1 DEF Place, Withheld
    <3> QED
      BY <3>1, <3>2
  <2>6. Busy' = {}
    BY <2>1, <2>2, <2>3 DEF Place, Withheld, Closing, Busy, With
  <2>7. Place(job'[p], pc'[p], Busy', reg'.items, Pending') /\ OneAtATime'
    BY <2>1, <2>3, <2>5, <2>6 DEF Place, Withheld, OneAtATime, OnItem, Closing
  <2> QED
    BY <2>7, StepQueue
<1> QED
  BY <1>1, <1>2, <1>3, <1>4

LEMMA MishapQueue ==
  ASSUME OneRunner, BacklogTypeOK, Copies, Evidence, Queue, NEW p \in Runners,
         Handle(p) \/ Fail(p) \/ Kill(p), RecordsSettled => pc[p] # "settled"
  PROVE  Queue'
<1>0. reg' = reg /\ Pending' = Pending
  BY DEF Handle, Fail, Kill, Pending
<1>1. CASE Return(p) \/ Goto(p, "handle")
  <2>1. pc'[p] \in {"idle", "handle"}
    BY <1>1, After
  <2>2. reg'.items = reg.items /\ Pending' \subseteq Pending
    BY <1>0
  <2> QED
    BY <2>1, <2>2, LeavesQueue
<1>2. CASE Handle(p) /\ ~Return(p)
  <2>1. PICK i \in Items :
          /\ Earliest(i, Busy) /\ Pending = {} /\ Goto(p, "record")
          /\ SetJob(p, [NoJob EXCEPT !.mode = "exception", !.stage = "candidate",
                                     !.item = i, !.worker = reg.rec[i].worker])
    BY <1>2 DEF Handle, Busy
  <2>2. job'[p].item = i /\ job'[p].mode = "exception" /\ pc'[p] = "record"
    <3>1. job'[p] = [NoJob EXCEPT !.mode = "exception", !.stage = "candidate",
                                  !.item = i, !.worker = reg.rec[i].worker]
      BY <2>1, After
    <3> QED
      BY <2>1, <3>1, After DEF NoJob
  <2>3. Busy = {i}
    BY <2>1 DEF Earliest, Queue, OneAtATime
  <2>4. Busy' = {i} /\ Pending' = {}
    BY <1>0, <2>1, <2>3 DEF Busy, With
  <2>5. Place(job'[p], pc'[p], Busy', reg'.items, Pending') /\ OneAtATime'
    BY <2>1, <2>2, <2>4 DEF Place, Withheld, OneAtATime, Closing
  <2> QED
    BY <2>5, StepQueue
<1>3. CASE Fail(p) /\ ~Return(p) /\ ~Goto(p, "handle")
  <2>1. \/ /\ pc[p] \in {"route", "load", "save"} /\ Goto(p, "dispatch")
           /\ SetJob(p, [job[p] EXCEPT !.worker = "p40"])
        \/ pc[p] = "dispatch" /\ Goto(p, "block") /\ UNCHANGED job
        \/ /\ pc[p] \in Recording /\ Goto(p, "settle")
           /\ SetJob(p, [job[p] EXCEPT !.stage = "unrecorded"])
    BY <1>3 DEF Fail
  <2>2. pc[p] \in OnItem \ Closing
    BY <2>1 DEF Recording, OnItem, PCs, Closing
  <2>3. pc'[p] \in {"dispatch", "block", "settle"}
    BY <2>1, After
  <2>4. \/ job'[p] = [job[p] EXCEPT !.worker = "p40"] \/ job'[p] = job[p]
        \/ job'[p] = [job[p] EXCEPT !.stage = "unrecorded"]
    BY <2>1, After
  <2>5. job'[p].mode = job[p].mode /\ job'[p].item = job[p].item
    BY <2>4, LocalsTyped DEF JobType
  <2>6. pc'[p] \in OnItem \ Closing
    BY <2>3 DEF OnItem, PCs, Closing
  <2> QED
    BY <1>0, <2>2, <2>5, <2>6, StaysQueue
<1> QED
  BY <1>1, <1>2, <1>3 DEF Kill

LEMMA NextQueue ==
  ASSUME OneRunner
  PROVE  BacklogTypeOK /\ Copies /\ Evidence /\ Queue /\ [Next]_vars => Queue'
<1> SUFFICES ASSUME BacklogTypeOK, Copies, Evidence, Queue, [Next]_vars
             PROVE  Queue'
  OBVIOUS
<1>1. ASSUME NEW p \in Runners, Step(p)
      PROVE  Queue'
  <2>1. CASE RecordUnknown(p) \/ Handle(p)
    <3>1. (Fail(p) \/ Handle(p)) /\ pc[p] # "settled"
      BY <2>1 DEF RecordUnknown, Handle
    <3> QED
      BY <3>1, MishapQueue
  <2> QED
    BY <1>1, <2>1, StartQueue, RoutingQueue, GatesQueue, ResumedQueue, OutcomeQueue DEF Step
<1>2. ASSUME NEW p \in Runners, Raise(p) \/ Kill(p)
      PROVE  Queue'
  <2>1. (Fail(p) \/ Kill(p)) /\ (RecordsSettled => pc[p] # "settled")
    BY <1>2 DEF Raise, Kill, RecordsSettled
  <2> QED
    BY <2>1, MishapQueue
<1>3. CASE UNCHANGED vars
  BY <1>3 DEF vars, Queue, OneAtATime, Busy, With, Pending
<1> QED
  BY <1>1, <1>2, <1>3 DEF Next

LEMMA InitQueue == Init => Queue
<1> SUFFICES ASSUME Init PROVE Queue
  OBVIOUS
<1>1. Busy = {} /\ Pending = {}
  BY DEF Init, InitReg, NoRecord, Busy, With, Pending, PendingPhases
<1> QED
  BY <1>1 DEF Init, Queue, OneAtATime, Place, Withheld, OnItem, Closing

\* With one runner that is not stopped between an outcome and its last
\* checkpoint: the backlog is the queue that BacklogLifecycle describes.
\* Items are taken in the order of the manifest and one at a time, a step
\* changes one item, and none leaves "queued" unclaimed or "completed" again.
THEOREM BacklogFollowsQueue ==
  ASSUME OneRunner, RecordsSettled
  PROVE  Spec => FollowsQueue
<1>1. Init => Lifecycle!Init
  BY DEF Init, InitReg, Lifecycle!Init
<1>2. BacklogTypeOK /\ Copies /\ Evidence /\ Queue /\ [Next]_vars
        => [Lifecycle!Next]_(reg.items)
  <2> SUFFICES ASSUME BacklogTypeOK, Copies, Evidence, Queue, NEW p \in Runners,
                      Step(p) \/ Raise(p) \/ Kill(p), reg'.items # reg.items
               PROVE  Lifecycle!Next
    BY DEF vars, Next
  <2>1. reg.items \in [Items -> Statuses]
    BY DEF BacklogTypeOK, RegType
  <2>2. CASE Claim(p)
    <3>1. PICK k \in Items :
            Claimable(k) /\ reg'.items = [reg.items EXCEPT ![k] = "in_progress"]
      BY <2>2, ClaimWrites
    <3>2. Lifecycle!Claim(k)
      BY <3>1 DEF Claimable, Earliest, With, Lifecycle!Claim, Lifecycle!Earliest, Lifecycle!With
    <3> QED
      BY <3>2 DEF Lifecycle!Next
  <2>3. ASSUME pc[p] \in {"recover", "block", "suspend", "settle"}, NEW s,
               s \in {"queued", "completed", "blocked"}, Transition(p, job[p].item, s)
        PROVE  Lifecycle!Next
    <3>1. pc[p] \in OnItem \ Closing /\ pc[p] \notin Outdated
      BY <2>3 DEF OnItem, PCs, Closing, Outdated
    <3>2. job[p].item \in Items /\ job[p].mode \in Modes
      BY <3>1, LocalsTyped DEF JobType
    <3>3. reg'.items = [reg.items EXCEPT ![job[p].item] = s]
      BY <2>3, <3>1, <3>2, ItemWrites
    <3>4. reg.items[job[p].item] \in {"in_progress", "blocked"}
      BY <3>1, <3>2 DEF Queue, Place, Withheld, Busy, With, Modes
    <3>5. Lifecycle!Conclude(job[p].item)
      BY <2>3, <3>3, <3>4 DEF Lifecycle!Conclude
    <3> QED
      BY <3>2, <3>5 DEF Lifecycle!Next
  <2>4. CASE Settle(p)
    <3>1. PICK s \in Outcomes(job[p]) : Transition(p, job[p].item, s)
      BY <2>4 DEF Settle
    <3>2. s \in {"queued", "completed", "blocked"} /\ pc[p] = "settle"
      BY <2>4, <3>1 DEF Outcomes, Settle
    <3> QED
      BY <2>3, <3>1, <3>2
  <2> QED
    BY <2>2, <2>3, <2>4, ItemsChange
<1> QED
  BY <1>1, <1>2, InitTyped, NextTyped, InitEvidence, NextCopies, NextEvidence, InitQueue,
     NextQueue, PTL DEF Spec, FollowsQueue, Lifecycle!Spec

(***************************************************************************)
(* Records that look alive.  A record is executing from the start of the   *)
(* worker to its end, and names the runner and the kills it had lived      *)
(* through.  A kill outdates the names it has left in records, because     *)
(* they never run ahead of the kills; every other way for the runner to    *)
(* leave an item takes the item out of progress first, or goes through the *)
(* exception handler, which comes back to it.                              *)
(***************************************************************************)

Named(r) ==
  r.owner # NoOwner => r.owner \in Runners \X Nat /\ r.owner[2] <= life[r.owner[1]].kills

Owners == \A i \in Items : Named(reg.rec[i])

\* The steps that change the records.
LEMMA RecordsChange ==
  ASSUME BacklogTypeOK, Copies, NEW p \in Runners, Step(p) \/ Raise(p) \/ Kill(p)
  PROVE  \/ reg'.rec = reg.rec \/ Begin(p)
         \/ /\ job[p].item \in Items
            /\ \E phase \in Phases \ {"executing"}, r \in RecordType :
                 Checkpoint(job[p].item, phase, r)
<1> DEFINE i == job[p].item
           r == reg.rec[i]
<1>1. CASE \/ Wake(p) \/ Resume(p) \/ Inspect(p) \/ Route(p) \/ Load(p) \/ Request(p)
           \/ Record(p) \/ Handle(p) \/ RecordUnknown(p) \/ Raise(p) \/ Kill(p)
  BY <1>1 DEF Wake, Resume, Inspect, Route, Load, Request, Record, Handle, RecordUnknown,
              Raise, Kill, Fail
<1>2. CASE Recover(p) \/ Block(p) \/ Suspend(p) \/ Settle(p)
  BY <1>2, TransitionQuiet DEF Recover, Block, Suspend, Settle
<1>3. CASE Save(p)
  BY <1>3, SaveKeeps
<1>4. CASE Dispatch(p) \/ Recorded(p) \/ Claim(p)
  BY <1>4 DEF Dispatch, Recorded, Claim, BacklogTypeOK, RegType
<1>5. CASE \/ Recovered(p) \/ Execute(p) \/ Test(p) \/ SelfReview(p) \/ Review(p)
           \/ Suspended(p) \/ ReviewAgain(p) \/ Final(p) \/ Keep(p) \/ Settled(p)
  <2>1. pc[p] \in {"recovered", "work", "tests", "self_review", "review", "suspended",
                   "final", "keep", "settled"}
    BY <1>5 DEF Recovered, Execute, Test, SelfReview, Review, Suspended, ReviewAgain, Final,
                Keep, Settled
  <2>2. i \in Items /\ r \in RecordType /\ job[p] \in JobType
    BY <2>1, LocalsTyped DEF OnItem, PCs
  <2>3. CASE Recovered(p) \/ SelfReview(p)
    BY <2>2, <2>3 DEF Recovered, SelfReview, Phases
  <2>4. CASE Settled(p)
    <3>1. LastPhase(job[p]) \in Phases \ {"executing"}
      BY <2>2 DEF LastPhase, Phases, PendingPhases, JobType, Statuses
    <3> QED
      BY <2>2, <2>4, <3>1 DEF Settled
  <2>5. CASE Suspended(p) \/ Keep(p)
    <3> DEFINE s == [r EXCEPT !.worker = job[p].worker, !.passed = Passes(job[p], @)]
    <3>1. s \in RecordType
      BY <2>2, KeptTyped DEF JobType
    <3>2. Checkpoint(i, "review_pending", s) \/ Checkpoint(i, "final_verification_pending", s)
      BY <2>5 DEF Suspended, Keep
    <3> HIDE DEF s, r
    <3> QED
      BY <2>2, <3>1, <3>2 DEF Phases, PendingPhases
  <2>6. CASE Execute(p) \/ Test(p) \/ Review(p) \/ ReviewAgain(p) \/ Final(p)
    <3> HIDE DEF r
    <3>0. ASSUME NEW gate \in Gates, NEW v, NEW phase \in Phases \ {"executing"},
                 Checkpoint(i, phase, WithResult(r, gate, v))
          PROVE  \E c \in Phases \ {"executing"}, s \in RecordType : Checkpoint(i, c, s)
      BY <2>2, <3>0, ResultTyped
    <3>1. CASE Execute(p)
      <4>1. PICK v : Checkpoint(i, "worker_complete", WithResult(r, "result", v))
        BY <3>1 DEF Execute, r
      <4> QED
        BY <2>2, <3>0, <4>1 DEF Gates, Phases, PendingPhases
    <3>2. CASE Test(p)
      <4>1. PICK v : Checkpoint(i, "tests_complete", WithResult(r, "tests", v))
        BY <3>2 DEF Test, r
      <4> QED
        BY <2>2, <3>0, <4>1 DEF Gates, Phases, PendingPhases
    <3>3. CASE Review(p)
      <4>1. PICK v : Checkpoint(i, "review_complete", WithResult(r, "review", v))
        BY <3>3 DEF Review, r
      <4> QED
        BY <2>2, <3>0, <4>1 DEF Gates, Phases, PendingPhases
    <3>4. CASE ReviewAgain(p)
      <4>1. PICK v : Checkpoint(i, "review_pending", WithResult(r, "review", v))
        BY <3>4 DEF ReviewAgain, r
      <4> QED
        BY <2>2, <3>0, <4>1 DEF Gates, Phases, PendingPhases
    <3>5. CASE Final(p)
      <4>1. \A m : FinalPhase(m) \in Phases \ {"executing"}
        BY DEF FinalPhase, Phases, PendingPhases
      <4>2. PICK m, v : Checkpoint(i, FinalPhase(m), WithResult(r, "final", v))
        BY <3>5 DEF Final, r
      <4> QED
        BY <2>2, <3>0, <4>1, <4>2 DEF Gates
    <3> QED
      BY <2>2, <2>6, <3>1, <3>2, <3>3, <3>4, <3>5
  <2> QED
    BY <1>5, <2>3, <2>4, <2>5, <2>6
<1> QED
  BY <1>1, <1>2, <1>3, <1>4, <1>5 DEF Step

\* Kills are counted up, and only a kill counts.
LEMMA LivesGrow ==
  ASSUME BacklogTypeOK, NEW p \in Runners, Step(p) \/ Raise(p) \/ Kill(p)
  PROVE  /\ \A q \in Runners : /\ life[q].kills \in Nat /\ life'[q].kills \in Nat
                               /\ life[q].kills <= life'[q].kills
         /\ Kill(p) => life'[p].kills = life[p].kills + 1
         /\ Step(p) => life' = life
<1>1. life \in [Runners -> [kills : Nat, mishaps : Nat]]
  BY DEF BacklogTypeOK
<1>2. Step(p) => life' = life
  BY DEF Quiet, Step, Wake, Resume, Claim, Inspect, Recover, Recovered, Route, Load,
     Save, Dispatch, Request, Block, Begin, Execute, Test, SelfReview, Review, Suspend,
     Suspended, ReviewAgain, Final, Keep, Record, Recorded, Settle, Settled, Handle,
     RecordUnknown
<1>3. Raise(p) => life' = [life EXCEPT ![p].mishaps = @ + 1]
  BY DEF Raise
<1>4. Kill(p) => life' = [life EXCEPT ![p] = [kills |-> @.kills + 1, mishaps |-> @.mishaps + 1]]
  BY DEF Kill
<1>5. Kill(p) => life'[p].kills = life[p].kills + 1
  BY <1>1, <1>4
<1>6. \/ life' = life \/ life' = [life EXCEPT ![p].mishaps = @ + 1]
      \/ life' = [life EXCEPT ![p] = [kills |-> @.kills + 1, mishaps |-> @.mishaps + 1]]
  BY <1>2, <1>3, <1>4
<1>7. ASSUME NEW q \in Runners
      PROVE  /\ life[q].kills \in Nat /\ life'[q].kills \in Nat
             /\ life[q].kills <= life'[q].kills
  BY <1>1, <1>6
<1> QED
  BY <1>2, <1>5, <1>7

LEMMA OwnersNamed ==
  ASSUME BacklogTypeOK, Owners, NEW i \in Items, reg.rec[i].owner # NoOwner
  PROVE  /\ reg.rec[i].owner[1] \in Runners /\ reg.rec[i].owner[2] \in Nat
         /\ reg.rec[i].owner[2] <= life[reg.rec[i].owner[1]].kills
BY DEF Owners, Named

LEMMA StepOwners ==
  ASSUME BacklogTypeOK, Copies, Owners, NEW p \in Runners, Step(p) \/ Raise(p) \/ Kill(p)
  PROVE  Owners'
<1>1. ASSUME NEW i \in Items, reg'.rec[i].owner # NoOwner,
             \/ reg'.rec[i].owner = reg.rec[i].owner
             \/ reg'.rec[i].owner = <<p, life[p].kills>>
      PROVE  /\ reg'.rec[i].owner \in Runners \X Nat
             /\ reg'.rec[i].owner[2] <= life'[reg'.rec[i].owner[1]].kills
  <2>1. CASE reg'.rec[i].owner = reg.rec[i].owner
    <3>1. reg.rec[i].owner \in Runners \X Nat
      BY <1>1, <2>1 DEF Owners, Named
    <3>2. reg.rec[i].owner[2] <= life[reg.rec[i].owner[1]].kills
          /\ reg.rec[i].owner[1] \in Runners /\ reg.rec[i].owner[2] \in Nat
      BY <1>1, <2>1, OwnersNamed
    <3>3. /\ life[reg.rec[i].owner[1]].kills \in Nat /\ life'[reg.rec[i].owner[1]].kills \in Nat
          /\ life[reg.rec[i].owner[1]].kills <= life'[reg.rec[i].owner[1]].kills
      BY <3>2, LivesGrow
    <3> QED
      BY <2>1, <3>1, <3>2, <3>3
  <2>2. CASE reg'.rec[i].owner = <<p, life[p].kills>>
    BY <2>2, LivesGrow
  <2> QED
    BY <1>1, <2>1, <2>2
<1>2. CASE reg'.rec = reg.rec
  BY <1>1, <1>2 DEF Owners, Named
<1>3. ASSUME NEW k \in Items, NEW phase, NEW r \in RecordType, Checkpoint(k, phase, r),
             phase = "executing" => r.owner = <<p, life[p].kills>>
      PROVE  Owners'
  <2>1. \A i \in Items : reg'.rec[i].owner = NoOwner \/ reg'.rec[i].owner = reg.rec[i].owner
                         \/ reg'.rec[i].owner = <<p, life[p].kills>>
    BY <1>3, CheckpointWrites
  <2> QED
    BY <1>1, <2>1 DEF Owners, Named
<1>4. CASE Begin(p)
  <2>1. job[p].item \in Items /\ reg.rec[job[p].item] \in RecordType /\ job[p] \in JobType
    BY <1>4, LocalsTyped DEF Begin, OnItem, PCs
  <2> DEFINE r == [reg.rec[job[p].item] EXCEPT !.worker = job[p].worker,
                                               !.owner = <<p, life[p].kills>>]
  <2>2. r \in RecordType /\ r.owner = <<p, life[p].kills>>
    BY <2>1, LivesGrow DEF RecordType, JobType
  <2>3. Checkpoint(job[p].item, "executing", r)
    BY <1>4 DEF Begin
  <2> HIDE DEF r
  <2> QED
    BY <1>3, <2>1, <2>2, <2>3
<1> QED
  BY <1>2, <1>3, <1>4, RecordsChange

\* The steps after which a runner is on no item.
LEMMA LeavingSteps ==
  ASSUME BacklogTypeOK, NEW p \in Runners, Step(p) \/ Raise(p),
         pc'[p] \in {"idle", "resume", "claim", "inspect"}
  PROVE  \/ Wake(p) \/ Resume(p) \/ Inspect(p) \/ (Claim(p) /\ reg' = reg)
         \/ Recovered(p) \/ Block(p) \/ Suspended(p) \/ Settled(p)
         \/ ReviewAgain(p) \/ (Final(p) /\ job[p].mode = "final") \/ Keep(p)
         \/ Handle(p) /\ (Pending # {} \/ With(reg.items, "in_progress") = {})
         \/ Raise(p) /\ job[p].mode = "exception" /\ pc[p] \notin Recording
<1> USE After
<1>1. ~(Recover(p) \/ Route(p) \/ Load(p) \/ Save(p) \/ Dispatch(p) \/ Request(p) \/ Begin(p))
  BY DEF Recover, Route, Load, Save, Dispatch, Request, Begin
<1>2. ~(Execute(p) \/ Test(p) \/ SelfReview(p) \/ Review(p) \/ Suspend(p))
  BY DEF Execute, Test, SelfReview, Review, Suspend
<1>3. ~(Record(p) \/ Recorded(p) \/ Settle(p))
  BY DEF Record, Recorded, Settle
<1>4. Claim(p) => reg' = reg
  BY DEF Claim
<1>5. Final(p) => job[p].mode = "final"
  BY DEF Final
<1>6. Handle(p) => Pending # {} \/ With(reg.items, "in_progress") = {}
  BY DEF Handle
<1>7. Fail(p) => job[p].mode = "exception" /\ pc[p] \notin Recording
  BY DEF Fail
<1>8. ~RecordUnknown(p) /\ (Raise(p) => Fail(p))
  BY <1>7 DEF RecordUnknown, Raise, Recording
<1> QED
  BY <1>1, <1>2, <1>3, <1>4, <1>5, <1>6, <1>7, <1>8 DEF Step

\* Whoever leaves an item leaves none in progress, except by a kill or when
\* the exception handler itself fails to settle it.
LEMMA LeavesNoneBusy ==
  ASSUME "settle" \notin FaultPoints,
         BacklogTypeOK, Copies, Evidence, Queue, NEW p \in Runners,
         \/ Recovered(p) \/ Block(p) \/ Suspended(p) \/ Settled(p)
         \/ ReviewAgain(p) \/ (Final(p) /\ job[p].mode = "final") \/ Keep(p)
         \/ Handle(p) /\ (Pending # {} \/ With(reg.items, "in_progress") = {})
         \/ Raise(p) /\ job[p].mode = "exception" /\ pc[p] \notin Recording
  PROVE  Busy' = {}
<1>1. /\ Place(job[p], pc[p], Busy, reg.items, Pending) /\ OneAtATime
      /\ Fits(job[p], pc[p]) /\ job[p].mode \in Modes
  BY LocalsFit DEF Queue, JobType
<1>2. Busy' = With(reg'.items, "in_progress")
  BY DEF Busy, With
<1>3. CASE Recovered(p) \/ Suspended(p) \/ Settled(p)
  <2>1. pc[p] \in Closing /\ pc[p] \in OnItem
    BY <1>3 DEF Recovered, Suspended, Settled, Closing, OnItem, PCs
  <2>2. Busy = {}
    BY <1>1, <2>1 DEF Place, Withheld
  <2>3. reg'.items = reg.items
    BY <1>3, <2>1, LocalsTyped, CheckpointKeeps DEF Recovered, Suspended, Settled
  <2> QED
    BY <1>2, <2>2, <2>3 DEF Busy
<1>4. CASE ReviewAgain(p) \/ (Final(p) /\ job[p].mode = "final") \/ Keep(p)
  <2>1. /\ pc[p] \in {"review", "final", "keep"} /\ job[p].mode \in {"review", "final"}
    BY <1>1, <1>4 DEF ReviewAgain, Final, Keep, Fits
  <2>2. pc[p] \in OnItem \ Closing
    BY <2>1 DEF OnItem, PCs, Closing
  <2>3. Busy = {}
    BY <1>1, <2>1, <2>2 DEF Place, Withheld
  <2>4. reg'.items = reg.items
    BY <1>4, <2>2, LocalsTyped, CheckpointKeeps DEF ReviewAgain, Final, Keep
  <2> QED
    BY <1>2, <2>3, <2>4 DEF Busy
<1>5. CASE Block(p)
  <2>1. pc[p] = "block" /\ pc[p] \in OnItem \ Closing /\ pc[p] \notin Outdated
    BY <1>5 DEF Block, OnItem, PCs, Closing, Outdated
  <2>2. job[p].mode = "run" /\ job[p].item \in Items
    BY <1>1, <2>1, LocalsTyped DEF Fits, RunSteps
  <2>3. Busy = {job[p].item}
    BY <1>1, <2>1, <2>2 DEF Place, Withheld
  <2>4. reg'.items = [reg.items EXCEPT ![job[p].item] = "blocked"]
        /\ reg.items \in [Items -> Statuses]
    BY <1>5, <2>1, <2>2, ItemWrites DEF Block
  <2> QED
    BY <1>2, <2>3, <2>4 DEF Busy, With
<1>6. CASE Handle(p) /\ (Pending # {} \/ With(reg.items, "in_progress") = {})
  <2>1. Busy = {}
    BY <1>1, <1>6 DEF OneAtATime, Busy
  <2>2. reg' = reg
    BY <1>6 DEF Handle
  <2> QED
    BY <1>2, <2>1, <2>2 DEF Busy
<1>7. CASE Raise(p) /\ job[p].mode = "exception" /\ pc[p] \notin Recording
  <2>1. pc[p] = "settled" /\ reg' = reg
    BY <1>1, <1>7 DEF Raise, Fail, Fits
  <2>2. Busy = {}
    BY <1>1, <2>1 DEF Place, Closing
  <2> QED
    BY <1>2, <2>1, <2>2 DEF Busy
<1> QED
  BY <1>3, <1>4, <1>5, <1>6, <1>7

LEMMA NextLive ==
  ASSUME OneRunner, "settle" \notin FaultPoints
  PROVE  /\ BacklogTypeOK /\ Copies /\ Evidence /\ Queue /\ Owners /\ LiveLookingIsLive
         /\ [Next]_vars /\ BacklogTypeOK' /\ Queue' /\ Owners'
         => LiveLookingIsLive'
<1> SUFFICES ASSUME BacklogTypeOK, Copies, Evidence, Queue, Owners, LiveLookingIsLive,
                    [Next]_vars, BacklogTypeOK', Queue', Owners',
                    NEW i \in Items, reg'.items[i] = "in_progress",
                    reg'.rec[i].phase = "executing", reg'.rec[i].owner # NoOwner,
                    life'[reg'.rec[i].owner[1]].kills = reg'.rec[i].owner[2],
                    NEW p, p = reg'.rec[i].owner[1]
             PROVE  pc'[p] = "handle" \/ (pc'[p] \in OnItem /\ job'[p].item = i)
  BY DEF LiveLookingIsLive, LooksAlive, Alive
<1>1. p \in Runners /\ i \in Busy'
  BY DEF Owners, Named, Busy, With
<1>2. CASE pc'[p] \in OnItem
  <2>1. Place(job'[p], pc'[p], Busy', reg'.items, Pending') /\ job'[p].mode \in Modes
    BY <1>1 DEF Queue, BacklogTypeOK, JobType
  <2>2. Busy' = {} \/ Busy' = {job'[p].item}
    BY <1>2, <2>1 DEF Place, Withheld, Modes
  <2> QED
    BY <1>1, <1>2, <2>2
<1>3. CASE UNCHANGED vars
  BY <1>3 DEF vars, LiveLookingIsLive, LooksAlive, Alive
<1>4. CASE Next /\ pc'[p] \in {"idle", "resume", "claim", "inspect"}
  <2>1. Step(p) \/ Raise(p) \/ Kill(p)
    BY <1>1, <1>4 DEF Next, OneRunner
  <2>2. ~(reg' = reg /\ life' = life /\ pc[p] \in {"idle", "resume", "claim", "inspect"})
    BY DEF LiveLookingIsLive, LooksAlive, Alive, OnItem
  <2>3. ~(Wake(p) \/ Resume(p) \/ Inspect(p) \/ (Claim(p) /\ reg' = reg))
    BY <2>2 DEF Wake, Resume, Inspect, Claim, Quiet
  <2>4. CASE Kill(p)
    <3>1. reg' = reg
      BY <2>4 DEF Kill
    <3>2. reg.rec[i].owner[2] <= life[p].kills /\ reg.rec[i].owner[2] \in Nat
      BY <3>1, OwnersNamed
    <3> QED
      BY <1>1, <2>4, <3>1, <3>2, LivesGrow
  <2>5. CASE Step(p) \/ Raise(p)
    BY <1>1, <1>4, <2>3, <2>5, LeavingSteps, LeavesNoneBusy
  <2> QED
    BY <2>1, <2>4, <2>5
<1>5. pc'[p] \in PCs
  BY <1>1 DEF BacklogTypeOK
<1> QED
  BY <1>2, <1>3, <1>4, <1>5 DEF OnItem

\* With one runner, wherever it is killed or a call raises but for the write of
\* an outcome: an item in progress whose record names a live owner is being
\* worked on by it, so that nobody waits for a runner that has gone.  The
\* exception handler that fails in that write leaves such an item behind.
THEOREM LiveLookingItemsAreLive ==
  ASSUME OneRunner, "settle" \notin FaultPoints
  PROVE  Spec => []LiveLookingIsLive
<1>1. Init => Owners /\ LiveLookingIsLive
  BY DEF Init, InitReg, NoRecord, Owners, Named, LiveLookingIsLive
<1>2. BacklogTypeOK /\ Copies /\ Owners /\ [Next]_vars => Owners'
  <2> SUFFICES ASSUME BacklogTypeOK, Copies, Owners, [Next]_vars
               PROVE  Owners'
    OBVIOUS
  <2>1. CASE Next
    BY <2>1, StepOwners DEF Next
  <2>2. CASE UNCHANGED vars
    BY <2>2 DEF vars, Owners, Named
  <2> QED
    BY <2>1, <2>2
<1> QED
  BY <1>1, <1>2, InitTyped, NextTyped, InitEvidence, NextCopies, NextEvidence, InitQueue,
     NextQueue, NextLive, PTL DEF Spec
=============================================================================

--------------------------------- MODULE Pool ----------------------------------
(***************************************************************************)
(* The second shift's pool of models: second_shift/state.py, registry.py,  *)
(* ledger.py, credit_state.py, pool_recovery.py, and of dispatch.py the    *)
(* two workflows that do not ask the broker (Backlog has the third).       *)
(*                                                                         *)
(* A step is one hold of the state lock.  update_state writes the registry *)
(* file and then the ledger file, so a process that is killed inside it    *)
(* leaves the first without the second.  A caller of attempt_coding_task   *)
(* reads the registry, routes, reads the decision back and records the     *)
(* attempt in four holds; everybody else makes one transaction at a time.  *)
(*                                                                         *)
(* The writers are those of second_shift/.  The broker's registry, which   *)
(* saves all of the file as it was at an earlier load, is in Backlog.      *)
(*                                                                         *)
(* What the code compares is kept: of a credit state, whether it is        *)
(* exhausted, and of the recovery counters, the values up to two.          *)
(***************************************************************************)
EXTENDS Naturals, FiniteSets

CONSTANTS
  Originals,    \* the models the registry is seeded with, besides the two below
  Goals,        \* a goal and its class: the key of the P40's failures
  Callers,      \* processes that call attempt_coding_task
  Metered,      \* models whose credit state is reported
  Judged,       \* models whose failures are reported to the ledger
  Corrected,    \* models whose count of failures is set by hand
  Counts,       \* the counts it is set to
  NoGoal, NoWorker, NoCount,
  Threshold,    \* SUBSTANTIVE_FAILURE_THRESHOLD
  MaxFailures,  \* bound on the substantive failures recorded of the P40 for a goal
  MaxReports,   \* bound on those recorded of a model
  MaxKills      \* bound on the processes killed between the two files

VARIABLES
  reg,      \* the registry file
  ledger,   \* the ledger file: its substantive failures, counted
  pc,       \* the next step of a caller
  job,      \* the locals of its attempt_coding_task
  kills,    \* history: processes killed between the two files
  erased,   \* history: what was in the ledger when it was cleared
  given     \* history: the highest count set by hand, of a model

history == <<erased, given>>
vars == <<reg, ledger, pc, job, kills, history>>

RecoveryMembers == <<"copilot", "codex">>
Recovery == {"copilot", "codex"}
Members == Originals \cup Recovery
Workflows == {"layered-review", "direct-escalation"}
Workers == Members \cup {"p40"}

ASSUME PoolAssumption ==
  /\ IsFiniteSet(Originals)
  /\ Originals \cap Recovery = {}
  /\ Metered \cup Judged \cup Corrected \subseteq Members
  /\ Counts \subseteq Nat
  /\ NoWorker \notin Workers
  /\ NoGoal \notin Goals
  /\ NoCount \notin Nat
  /\ Threshold \in Nat \ {0}
  /\ MaxFailures \in Nat /\ MaxReports \in Nat
  /\ MaxKills \in Nat

-----------------------------------------------------------------------------
(* The registry: models, pool_recovery, and of coding_dispatcher the P40's *)
(* failures by goal and the selected model.                                *)

Fresh(status) == [status |-> status, exhausted |-> FALSE, fails |-> 0]

\* Copilot and Codex wait for a drop, or are active from the start.
Seeded(recovery) ==
  [ models   |-> [m \in Members |-> Fresh(IF m \in Recovery THEN recovery ELSE "active")],
    pool     |-> [last |-> NoCount, toTwo |-> 0, toFour |-> 0, members |-> {}],
    p40      |-> [g \in Goals |-> 0],
    selected |-> NoWorker ]

NoJob == [goal |-> NoGoal, model |-> "p40", repair |-> FALSE,
          models |-> Seeded("standby").models]

NoFailures == [p40 |-> [g \in Goals |-> 0], models |-> [m \in Members |-> 0]]

Init ==
  /\ \E recovery \in {"active", "standby"} : reg = Seeded(recovery)
  /\ ledger = NoFailures
  /\ pc = [c \in Callers |-> "idle"]
  /\ job = [c \in Callers |-> NoJob]
  /\ kills = 0
  /\ erased = NoFailures
  /\ given = [m \in Members |-> 0]

\* get_usable_member_ids
Usable(models) ==
  {m \in Members : models[m].status = "active" /\ ~models[m].exhausted}

\* Substantive failures ever written to the ledger file.
P40Recorded(g) == ledger.p40[g] + erased.p40[g]
Recorded(m) == ledger.models[m] + erased.models[m]

UpdateLedgerFirst(r, l) ==   \* mutant: the files are written in the other order
  /\ ledger' = l
  /\ \/ reg' = r /\ UNCHANGED kills
     \/ l # ledger /\ kills < MaxKills /\ kills' = kills + 1 /\ UNCHANGED reg
  /\ UNCHANGED history

\* update_state: both files, or the process is killed between them.
Update(r, l) ==
  /\ reg' = r
  /\ \/ ledger' = l /\ UNCHANGED kills
     \/ l # ledger /\ kills < MaxKills /\ kills' = kills + 1 /\ UNCHANGED ledger
  /\ UNCHANGED history

-----------------------------------------------------------------------------
(* check_pool_recovery *)

Counted(n) == IF n > 2 THEN 2 ELSE n

RisenAtThree(r) ==   \* mutant: a rise is noticed one member early
  r.pool.last # NoCount /\ r.pool.last < 3 /\ Cardinality(Usable(r.models)) >= 3

\* Crossed down to two or fewer, or up to four or more, since the last look.
Dropped(r) ==
  r.pool.last # NoCount /\ r.pool.last > 2 /\ Cardinality(Usable(r.models)) <= 2
Risen(r) ==
  r.pool.last # NoCount /\ r.pool.last < 4 /\ Cardinality(Usable(r.models)) >= 4

\* The first drop calls Copilot and the second Codex; the first rise sends
\* Codex back and the second Copilot, if it had been called.
Called(r) ==
  IF Dropped(r) /\ r.pool.toTwo < 2 THEN {RecoveryMembers[r.pool.toTwo + 1]} ELSE {}
SentBack(r) ==
  IF Risen(r) /\ r.pool.toFour < 2
  THEN {RecoveryMembers[2 - r.pool.toFour]} \cap r.pool.members ELSE {}

Observed(r) ==
  [r EXCEPT
     !.models = [m \in Members |->
                   IF m \in Called(r) THEN [r.models[m] EXCEPT !.status = "active"]
                   ELSE IF m \in SentBack(r) THEN [r.models[m] EXCEPT !.status = "standby"]
                   ELSE r.models[m]],
     !.pool = [last    |-> Cardinality(Usable(r.models)),
               toTwo   |-> Counted(r.pool.toTwo + IF Dropped(r) THEN 1 ELSE 0),
               toFour  |-> Counted(r.pool.toFour + IF Risen(r) THEN 1 ELSE 0),
               members |-> (r.pool.members \cup Called(r)) \ SentBack(r)]]

Observe ==
  /\ reg' = Observed(reg)
  /\ UNCHANGED <<ledger, pc, job, kills, history>>

-----------------------------------------------------------------------------
(* The ledger, the credit states and the reviewer: one transaction each.   *)

SetModel(r, m, model) == [r EXCEPT !.models[m] = model]

\* increment_substantive_failure: only an active model is quarantined.
AfterFailure(model) ==
  [model EXCEPT !.fails = @ + 1,
                !.status = IF model.fails + 1 >= Threshold /\ @ = "active"
                           THEN "unusable" ELSE @]

RecordFailure(m) ==
  /\ Recorded(m) < MaxReports
  /\ Update(SetModel(reg, m, AfterFailure(reg.models[m])),
            [ledger EXCEPT !.models[m] = @ + 1])
  /\ UNCHANGED <<pc, job>>

RecordSuccess(m) ==
  /\ reg' = SetModel(reg, m, [reg.models[m] EXCEPT !.fails = 0])
  /\ UNCHANGED <<ledger, pc, job, kills, history>>

\* update_model_credit_status and recover_credit_status
SetCredit(m, exhausted) ==
  /\ reg' = SetModel(reg, m, [reg.models[m] EXCEPT !.exhausted = exhausted])
  /\ UNCHANGED <<ledger, pc, job, kills, history>>

\* The reviewer loads the registry and saves it reactivated; nobody in the
\* repository does so while others write, so it is one step here.
Reactivate(m) ==
  /\ reg.models[m].status = "unusable"
  /\ reg' = SetModel(reg, m, [reg.models[m] EXCEPT !.status = "active", !.fails = 0])
  /\ UNCHANGED <<ledger, pc, job, kills, history>>

\* set_substantive_failure_count: of the registry only, and no quarantine.
SetFailureCount(m, n) ==
  /\ reg' = SetModel(reg, m, [reg.models[m] EXCEPT !.fails = n])
  /\ given' = [given EXCEPT ![m] = IF n > @ THEN n ELSE @]
  /\ UNCHANGED <<ledger, pc, job, kills, erased>>

\* clear_all: the registry keeps what it has counted.
ClearLedger ==
  /\ ledger # NoFailures
  /\ ledger' = NoFailures
  /\ erased' = [p40    |-> [g \in Goals |-> P40Recorded(g)],
                models |-> [m \in Members |-> Recorded(m)]]
  /\ UNCHANGED <<reg, pc, job, kills, given>>

Pool ==
  \/ Observe \/ ClearLedger
  \/ \E m \in Corrected, n \in Counts : SetFailureCount(m, n)
  \/ \E m \in Judged : RecordFailure(m) \/ RecordSuccess(m)
  \/ \E m \in Members : Reactivate(m)
  \/ \E m \in Metered, exhausted \in BOOLEAN : SetCredit(m, exhausted)

-----------------------------------------------------------------------------
(* attempt_coding_task *)

Goto(c, next) == pc' = [pc EXCEPT ![c] = next]
SetJob(c, j) == job' = [job EXCEPT ![c] = j]
Return(c) == Goto(c, "idle") /\ SetJob(c, NoJob)

BeginUnset(c) ==   \* mutant: the goal is not passed on
  /\ pc[c] = "idle"
  /\ SetJob(c, [NoJob EXCEPT !.models = reg.models])
  /\ Goto(c, "route")
  /\ UNCHANGED <<reg, ledger, kills, history>>

\* The call, for a goal, with the registry as it is now.  What else it is
\* given is chosen where it is first used.
Begin(c) ==
  /\ pc[c] = "idle"
  /\ \E g \in Goals : SetJob(c, [NoJob EXCEPT !.goal = g, !.models = reg.models])
  /\ Goto(c, "route")
  /\ UNCHANGED <<reg, ledger, kills, history>>

\* choose_repair_worker, by _copilot_available
RepairWorker(models) == IF "copilot" \in Usable(models) THEN "copilot" ELSE "codex"

\* _select_secondary_model: any of the usable members that failed least.
Secondaries(models) ==
  LET usable == Usable(models) \ (Recovery \cup {"p40"}) IN
  {m \in usable : \A o \in usable : models[m].fails <= models[o].fails}

ChoicesEarly(models, goal, workflow, repair) ==   \* mutant: one failure short
  IF repair THEN {RepairWorker(models)}
  ELSE IF reg.p40[goal] + 1 < Threshold THEN {"p40"}
  ELSE IF workflow = "direct-escalation" THEN {RepairWorker(models)}
  ELSE Secondaries(models)

Choices(models, goal, workflow, repair) ==
  IF repair THEN {RepairWorker(models)}
  ELSE IF reg.p40[goal] < Threshold THEN {"p40"}
  ELSE IF workflow = "direct-escalation" THEN {RepairWorker(models)}
  ELSE Secondaries(models)

\* route_coding_request writes back the models its caller had read.  An
\* attempt of Codex is a repair.  (The failover it may add to the ledger is no
\* failure, and not kept.)
Route(c) ==
  /\ pc[c] = "route"
  /\ \E workflow \in Workflows, repair \in BOOLEAN :
       \E w \in Choices(job[c].models, job[c].goal, workflow, repair) :
         /\ reg' = [reg EXCEPT !.models = job[c].models, !.selected = w]
         /\ SetJob(c, [NoJob EXCEPT !.goal = job[c].goal, !.repair = repair])
  /\ Goto(c, "check")
  /\ UNCHANGED <<ledger, kills, history>>

\* _select_secondary_model raises.
RouteRefused(c) ==
  /\ pc[c] = "route"
  /\ Choices(job[c].models, job[c].goal, "layered-review", FALSE) = {}
  /\ Return(c)
  /\ UNCHANGED <<reg, ledger, kills, history>>

\* The selected model is read in a hold of its own: it is the model the
\* attempt was made with, or the call raises.
Check(c) ==
  /\ pc[c] = "check"
  /\ \/ /\ reg.selected = "codex" => job[c].repair
        /\ SetJob(c, [job[c] EXCEPT !.model = reg.selected])
        /\ Goto(c, "record")
     \/ Return(c)
  /\ UNCHANGED <<reg, ledger, kills, history>>

Results == {"success", "substantive", "credit_exhausted", "unavailable", "other"}

AfterResult(model, result) ==
  [model EXCEPT !.exhausted = @ \/ result = "credit_exhausted",
                !.status = IF result = "unavailable" THEN "unusable" ELSE @]

\* record_attempt_result: only the P40's substantive failures are counted.
RecordAttempt(c) ==
  /\ pc[c] = "record"
  /\ \E result \in Results :
       LET j == job[c]
           counts == j.model = "p40" /\ result = "substantive"
           tried == [reg EXCEPT !.selected = j.model,
                                !.p40[j.goal] = @ + IF counts THEN 1 ELSE 0]
       IN  /\ counts => P40Recorded(j.goal) < MaxFailures
           /\ Update(IF j.model = "copilot"
                     THEN SetModel(tried, "copilot", AfterResult(reg.models["copilot"], result))
                     ELSE tried,
                     [ledger EXCEPT !.p40[j.goal] = @ + IF counts THEN 1 ELSE 0])
  /\ Return(c)

\* It raises if the attempt was not reviewed by Codex or Air Review.
RecordRefused(c) ==
  /\ pc[c] = "record"
  /\ Return(c)
  /\ UNCHANGED <<reg, ledger, kills, history>>

\* record_final_verification: an attempt of Codex, which counts for nothing.
Verify(c) ==
  /\ pc[c] = "idle"
  /\ reg' = [reg EXCEPT !.selected = "codex"]
  /\ UNCHANGED <<ledger, pc, job, kills, history>>

Caller(c) ==
  \/ Begin(c) \/ Route(c) \/ RouteRefused(c) \/ Check(c)
  \/ RecordAttempt(c) \/ RecordRefused(c) \/ Verify(c)

Next == Pool \/ \E c \in Callers : Caller(c)

Spec == Init /\ [][Next]_vars

-----------------------------------------------------------------------------
(* Properties. *)

ModelType == [status : {"active", "standby", "unusable"}, exhausted : BOOLEAN, fails : Nat]
PoolType ==
  [last : Nat \cup {NoCount}, toTwo : 0 .. 2, toFour : 0 .. 2, members : SUBSET Recovery]
JobType ==
  [goal : Goals \cup {NoGoal}, model : Workers, repair : BOOLEAN,
   models : [Members -> ModelType]]

\* Types of the two files and of the callers' locals, and the locals that
\* each step of attempt_coding_task relies on.
PoolTypeOK ==
  /\ reg \in [models : [Members -> ModelType], pool : PoolType, p40 : [Goals -> Nat],
              selected : Workers \cup {NoWorker}]
  /\ ledger \in [p40 : [Goals -> Nat], models : [Members -> Nat]]
  /\ pc \in [Callers -> {"idle", "route", "check", "record"}]
  /\ job \in [Callers -> JobType]
  /\ kills \in Nat
  /\ erased \in [p40 : [Goals -> Nat], models : [Members -> Nat]]
  /\ given \in [Members -> Nat]
  /\ \A c \in Callers :
       /\ pc[c] # "idle" => job[c].goal \in Goals
       /\ pc[c] = "check" => reg.selected # NoWorker

\* However the pool came to be as it is, an observation that follows another
\* finds no transition: calling a member never looks like a rise, sending
\* one back never like a drop ("repeated observations ... do not flap the
\* pool", pool_recovery.py:5).
ObservationSettles == ~Dropped(Observed(reg)) /\ ~Risen(Observed(reg))

\* The registry's counters and the ledger agree, but for one failure of each
\* process killed between the two files, which the registry has counted: the
\* order of the two writes never leaves a failure in the ledger alone.  What an
\* operator does by hand is accounted for: failures erased from the ledger
\* stay counted, and a model's count that was set has no failures behind it.
FailuresAccounted ==
  /\ \A g \in Goals :
       P40Recorded(g) <= reg.p40[g] /\ reg.p40[g] <= P40Recorded(g) + kills
  /\ \A m \in Members : reg.models[m].fails <= given[m] + Recorded(m) + kills

\* No work is recorded for another model than the P40, repairs excepted, before
\* the failures that justify it were in the ledger (dispatch.py:3), but for
\* those lost to kills; counts set by hand never justify it.  Only for one
\* caller at a time: the choice is read back from the registry in another hold
\* of the lock.
EscalationEarned ==
  \A c \in Callers :
    pc[c] = "record" /\ ~job[c].repair /\ job[c].model # "p40"
      => P40Recorded(job[c].goal) + kills >= Threshold

=============================================================================

------------------------------ MODULE Pool_proofs ------------------------------
(***************************************************************************)
(* Proofs about the second shift's two files, for every set of models and  *)
(* callers, every threshold and every bound.                               *)
(***************************************************************************)
EXTENDS Pool, FiniteSetTheorems, TLAPS

RegType == [models : [Members -> ModelType], pool : PoolType, p40 : [Goals -> Nat],
            selected : Workers \cup {NoWorker}]
LedgerType == [p40 : [Goals -> Nat], models : [Members -> Nat]]
HistoryTyped == erased \in LedgerType /\ given \in [Members -> Nat]

-----------------------------------------------------------------------------
(* Operators. *)

LEMMA RecoveryAreMembers == Recovery \subseteq Members /\ Members \subseteq Workers
  BY DEF Members, Workers

LEMMA MembersFinite == IsFiniteSet(Members)
<1>1. IsFiniteSet(Recovery)
  <2>1. Recovery = {"copilot"} \cup {"codex"}
    BY DEF Recovery
  <2>2. IsFiniteSet({"copilot"}) /\ IsFiniteSet({"codex"})
    BY FS_Singleton
  <2> QED
    BY <2>1, <2>2, FS_Union
<1> QED
  BY <1>1, PoolAssumption, FS_Union DEF Members

LEMMA UsableFinite ==
  ASSUME NEW models
  PROVE  IsFiniteSet(Usable(models)) /\ Cardinality(Usable(models)) \in Nat
  BY MembersFinite, FS_Subset, FS_CardinalityType DEF Usable

LEMMA SeededTyped ==
  ASSUME NEW recovery \in {"active", "standby"}
  PROVE  Seeded(recovery) \in RegType
  BY DEF Seeded, Fresh, RegType, ModelType, PoolType, Workers

\* One model replaced in the registry, and nothing else.
LEMMA SetModelTyped ==
  ASSUME NEW r \in RegType, NEW m \in Members, NEW model \in ModelType
  PROVE  /\ SetModel(r, m, model) \in RegType
         /\ SetModel(r, m, model).p40 = r.p40
         /\ SetModel(r, m, model).selected = r.selected
         /\ SetModel(r, m, model).models[m] = model
         /\ \A o \in Members : o # m => SetModel(r, m, model).models[o] = r.models[o]
  BY DEF SetModel, RegType

LEMMA AfterFailureTyped ==
  ASSUME NEW model \in ModelType
  PROVE  AfterFailure(model) \in ModelType /\ AfterFailure(model).fails = model.fails + 1
<1> DEFINE status == IF model.fails + 1 >= Threshold /\ model.status = "active"
                     THEN "unusable" ELSE model.status
<1>1. AfterFailure(model) = [model EXCEPT !.fails = model.fails + 1, !.status = status]
  BY DEF AfterFailure
<1>2. status \in {"active", "standby", "unusable"} /\ model.fails + 1 \in Nat
  BY DEF ModelType
<1> DEFINE fails == model.fails + 1
<1>3. AfterFailure(model) = [model EXCEPT !.fails = fails, !.status = status]
  BY <1>1
<1>4. fails \in Nat
  BY <1>2
<1> HIDE DEF status, fails
<1>5. AfterFailure(model) \in ModelType /\ AfterFailure(model).fails = fails
  BY <1>2, <1>3, <1>4 DEF ModelType
<1> QED
  BY <1>5 DEF fails

LEMMA AfterResultTyped ==
  ASSUME NEW model \in ModelType, NEW result \in Results
  PROVE  AfterResult(model, result) \in ModelType /\ AfterResult(model, result).fails = model.fails
<1> DEFINE status == IF result = "unavailable" THEN "unusable" ELSE model.status
           exhausted == model.exhausted \/ result = "credit_exhausted"
<1>1. AfterResult(model, result) = [model EXCEPT !.exhausted = exhausted, !.status = status]
  BY DEF AfterResult
<1>2. status \in {"active", "standby", "unusable"}
  BY DEF ModelType
<1>3. exhausted \in BOOLEAN
  OBVIOUS
<1> HIDE DEF status, exhausted
<1> QED
  BY <1>1, <1>2, <1>3 DEF ModelType

LEMMA CalledAndSentBack ==
  ASSUME NEW r \in RegType
  PROVE  Called(r) \subseteq Recovery /\ SentBack(r) \subseteq Recovery
<1>1. r.pool.toTwo \in 0 .. 2 /\ r.pool.toFour \in 0 .. 2
  BY DEF RegType, PoolType
<1> QED
  BY <1>1 DEF Called, SentBack, RecoveryMembers, Recovery

\* check_pool_recovery changes who is active, and no counter of failures.
LEMMA ObservedTyped ==
  ASSUME NEW r \in RegType
  PROVE  /\ Observed(r) \in RegType
         /\ Observed(r).p40 = r.p40
         /\ Observed(r).selected = r.selected
         /\ Observed(r).pool.last = Cardinality(Usable(r.models))
         /\ \A m \in Members :
              /\ Observed(r).models[m].fails = r.models[m].fails
              /\ Observed(r).models[m].exhausted = r.models[m].exhausted
              /\ Observed(r).models[m].status =
                   IF m \in Called(r) THEN "active"
                   ELSE IF m \in SentBack(r) THEN "standby" ELSE r.models[m].status
<1> DEFINE Moved(m) == IF m \in Called(r) THEN [r.models[m] EXCEPT !.status = "active"]
                       ELSE IF m \in SentBack(r) THEN [r.models[m] EXCEPT !.status = "standby"]
                       ELSE r.models[m]
           models == [m \in Members |-> Moved(m)]
           pool == [last    |-> Cardinality(Usable(r.models)),
                    toTwo   |-> Counted(r.pool.toTwo + IF Dropped(r) THEN 1 ELSE 0),
                    toFour  |-> Counted(r.pool.toFour + IF Risen(r) THEN 1 ELSE 0),
                    members |-> (r.pool.members \cup Called(r)) \ SentBack(r)]
<1>1. ASSUME NEW m \in Members
      PROVE  /\ Moved(m) \in ModelType
             /\ Moved(m).fails = r.models[m].fails
             /\ Moved(m).exhausted = r.models[m].exhausted
             /\ Moved(m).status = IF m \in Called(r) THEN "active"
                                 ELSE IF m \in SentBack(r) THEN "standby"
                                 ELSE r.models[m].status
  <2>1. r.models[m] \in ModelType
    BY DEF RegType
  <2> QED
    BY <2>1 DEF ModelType
<1>2. pool \in PoolType
  <2>1. r.pool.toTwo \in 0 .. 2 /\ r.pool.toFour \in 0 .. 2 /\ r.pool.members \subseteq Recovery
    BY DEF RegType, PoolType
  <2>2. /\ Counted(r.pool.toTwo + IF Dropped(r) THEN 1 ELSE 0) \in 0 .. 2
        /\ Counted(r.pool.toFour + IF Risen(r) THEN 1 ELSE 0) \in 0 .. 2
    BY <2>1 DEF Counted
  <2> QED
    BY <2>1, <2>2, UsableFinite, CalledAndSentBack DEF PoolType
<1>3. pool.last = Cardinality(Usable(r.models))
  OBVIOUS
<1>4. Observed(r) = [r EXCEPT !.models = models, !.pool = pool]
  BY DEF Observed
<1>5. models \in [Members -> ModelType] /\ \A m \in Members : models[m] = Moved(m)
  BY <1>1
<1> HIDE DEF Moved, models, pool
<1>6. /\ Observed(r) \in RegType
      /\ Observed(r).models = models
      /\ Observed(r).pool = pool
      /\ Observed(r).p40 = r.p40
      /\ Observed(r).selected = r.selected
  BY <1>2, <1>4, <1>5 DEF RegType
<1> QED
  BY <1>1, <1>3, <1>5, <1>6

\* Two observations in a row: the second finds neither a drop nor a rise,
\* whatever pool the first one met.
LEMMA ObservedSettles ==
  ASSUME NEW r \in RegType
  PROVE  ~Dropped(Observed(r)) /\ ~Risen(Observed(r))
<1> DEFINE U == Usable(r.models)
           V == Usable(Observed(r).models)
<1>1. /\ IsFiniteSet(U) /\ IsFiniteSet(V)
      /\ Cardinality(U) \in Nat /\ Cardinality(V) \in Nat
  BY UsableFinite
<1>2. Observed(r).pool.last = Cardinality(U)
  BY ObservedTyped
<1>3. U \ SentBack(r) \subseteq V /\ V \subseteq U \cup Called(r)
  BY ObservedTyped DEF Usable
<1>4. NoCount # Cardinality(U)
  BY <1>1, PoolAssumption
<1>5. r.pool.last = NoCount \/ r.pool.last \in Nat
  BY DEF RegType, PoolType
<1> HIDE DEF U, V
<1>6. CASE Dropped(r)
  <2>1. Cardinality(U) <= 2 /\ SentBack(r) = {}
    BY <1>1, <1>6 DEF Dropped, Risen, SentBack, U
  <2>2. PICK x : Called(r) \subseteq {x}
    BY DEF Called
  <2>3. Cardinality(V) <= Cardinality(U) + 1
    <3>1. V \subseteq U \cup {x}
      BY <1>3, <2>2
    <3>2. /\ IsFiniteSet(U \cup {x})
          /\ Cardinality(U \cup {x}) = IF x \in U THEN Cardinality(U) ELSE Cardinality(U) + 1
      BY <1>1, FS_AddElement, Zenon
    <3>3. Cardinality(V) <= Cardinality(U \cup {x})
      BY <3>1, <3>2, FS_Subset
    <3> QED
      BY <1>1, <3>2, <3>3
  <2> QED
    BY <1>1, <1>2, <2>1, <2>3 DEF Dropped, Risen, V
<1>7. CASE Risen(r)
  <2>1. Cardinality(U) >= 4
    BY <1>7 DEF Risen, U
  <2>2. PICK x : SentBack(r) \subseteq {x}
    BY DEF SentBack
  <2>3. Cardinality(V) >= Cardinality(U) - 1
    <3>1. U \ {x} \subseteq V
      BY <1>3, <2>2
    <3>2. Cardinality(U \ {x}) = IF x \in U THEN Cardinality(U) - 1 ELSE Cardinality(U)
      BY <1>1, FS_RemoveElement, Zenon
    <3>3. Cardinality(U \ {x}) <= Cardinality(V)
      BY <1>1, <3>1, FS_Subset
    <3> QED
      BY <1>1, <3>2, <3>3
  <2> QED
    BY <1>1, <1>2, <2>1, <2>3 DEF Dropped, Risen, V
<1>8. CASE ~Dropped(r) /\ ~Risen(r)
  <2>1. V = U
    BY <1>3, <1>8 DEF Called, SentBack
  <2> QED
    BY <1>1, <1>2, <2>1 DEF Dropped, Risen, V
<1> QED
  BY <1>6, <1>7, <1>8

LEMMA ChoicesAreWorkers ==
  ASSUME NEW models, NEW g, NEW workflow, NEW repair
  PROVE  Choices(models, g, workflow, repair) \subseteq Workers
  BY DEF Choices, RepairWorker, Secondaries, Usable, Workers, Members, Recovery

-----------------------------------------------------------------------------
(* The type invariant. *)

LEMMA InitTyped == Init => PoolTypeOK
<1> SUFFICES ASSUME Init PROVE PoolTypeOK
  OBVIOUS
<1>1. reg \in RegType
  BY SeededTyped DEF Init
<1>2. ledger \in LedgerType /\ HistoryTyped
  BY DEF Init, NoFailures, LedgerType, HistoryTyped
<1>3. job \in [Callers -> JobType]
  <2>1. Seeded("standby").models \in [Members -> ModelType]
    BY SeededTyped DEF RegType
  <2>2. NoJob \in JobType
    BY <2>1 DEF NoJob, JobType, Workers
  <2> QED
    BY <2>2 DEF Init
<1> QED
  BY <1>1, <1>2, <1>3 DEF Init, PoolTypeOK, RegType, LedgerType, HistoryTyped

LEMMA JobTyped ==
  ASSUME NEW g \in Goals \cup {NoGoal}, NEW m \in Workers, NEW repair \in BOOLEAN,
         NEW models \in [Members -> ModelType]
  PROVE  /\ NoJob \in JobType
         /\ [NoJob EXCEPT !.goal = g, !.models = models] \in JobType
         /\ [NoJob EXCEPT !.goal = g, !.repair = repair] \in JobType
<1>1. Seeded("standby").models \in [Members -> ModelType]
  BY SeededTyped DEF RegType
<1> QED
  BY <1>1 DEF NoJob, JobType, Workers

\* Both files, or the first of them.
LEMMA UpdateTyped ==
  ASSUME PoolTypeOK, NEW r \in RegType, NEW l \in LedgerType, Update(r, l)
  PROVE  reg' \in RegType /\ ledger' \in LedgerType /\ kills' \in Nat /\ HistoryTyped'
  BY DEF PoolTypeOK, Update, LedgerType, HistoryTyped, history

\* The transactions of the registry and the ledger.
LEMMA TransactionTyped ==
  ASSUME PoolTypeOK, Pool
  PROVE  PoolTypeOK' /\ reg'.selected = reg.selected /\ UNCHANGED <<pc, job>>
<1> DEFINE Typed == /\ reg' \in RegType /\ ledger' \in LedgerType /\ kills' \in Nat
                    /\ HistoryTyped'
                    /\ reg'.selected = reg.selected
                    /\ UNCHANGED <<pc, job>>
<1>1. reg \in RegType /\ ledger \in LedgerType /\ kills \in Nat /\ HistoryTyped
  BY DEF PoolTypeOK, RegType, LedgerType, HistoryTyped
<1>2. \A m \in Members : reg.models[m] \in ModelType
  BY <1>1 DEF RegType
<1>3. ASSUME Observe PROVE Typed
  BY <1>1, <1>3, ObservedTyped DEF Observe, history, HistoryTyped
<1>4. ASSUME NEW m \in Members, RecordFailure(m)
      PROVE  Typed
  <2>1. AfterFailure(reg.models[m]) \in ModelType
    BY <1>2, AfterFailureTyped
  <2>2. SetModel(reg, m, AfterFailure(reg.models[m])) \in RegType
    BY <1>1, <2>1, SetModelTyped
  <2>3. [ledger EXCEPT !.models[m] = @ + 1] \in LedgerType
    BY <1>1 DEF LedgerType
  <2> QED
    BY <1>1, <1>2, <1>4, <2>1, <2>2, <2>3, UpdateTyped, SetModelTyped DEF RecordFailure, Update
<1>5. ASSUME NEW m \in Members, NEW model \in ModelType, reg' = SetModel(reg, m, model),
             UNCHANGED <<ledger, pc, job, kills, history>>
      PROVE  Typed
  BY <1>1, <1>5, SetModelTyped DEF history, HistoryTyped
<1>6. ASSUME NEW m \in Members, RecordSuccess(m)
      PROVE  Typed
  <2>1. [reg.models[m] EXCEPT !.fails = 0] \in ModelType
    BY <1>2 DEF ModelType
  <2> QED
    BY <1>5, <1>6, <2>1 DEF RecordSuccess
<1>7. ASSUME NEW m \in Members, NEW exhausted \in BOOLEAN, SetCredit(m, exhausted)
      PROVE  Typed
  <2>1. [reg.models[m] EXCEPT !.exhausted = exhausted] \in ModelType
    BY <1>2 DEF ModelType
  <2> QED
    BY <1>5, <1>7, <2>1 DEF SetCredit
<1>8. ASSUME NEW m \in Members, Reactivate(m)
      PROVE  Typed
  <2>1. [reg.models[m] EXCEPT !.status = "active", !.fails = 0] \in ModelType
    BY <1>2 DEF ModelType
  <2> QED
    BY <1>5, <1>8, <2>1 DEF Reactivate
<1>9. ASSUME NEW m \in Members, NEW n \in Nat, SetFailureCount(m, n)
      PROVE  Typed
  <2>1. [reg.models[m] EXCEPT !.fails = n] \in ModelType
    BY <1>2 DEF ModelType
  <2> QED
    BY <1>1, <1>9, <2>1, SetModelTyped DEF SetFailureCount, HistoryTyped
<1>10. ASSUME ClearLedger PROVE Typed
  <2>1. ledger' \in LedgerType /\ erased' \in LedgerType
    BY <1>1, <1>10 DEF ClearLedger, NoFailures, P40Recorded, Recorded, LedgerType, HistoryTyped
  <2> QED
    BY <1>1, <1>10, <2>1 DEF ClearLedger, HistoryTyped
<1>11. Typed
  BY <1>3, <1>4, <1>6, <1>7, <1>8, <1>9, <1>10, PoolAssumption DEF Pool
<1> QED
  BY <1>11 DEF PoolTypeOK, RegType, LedgerType, HistoryTyped

\* The steps of attempt_coding_task.
LEMMA CallerTyped ==
  ASSUME PoolTypeOK, NEW c \in Callers, Caller(c)
  PROVE  PoolTypeOK'
<1> DEFINE Files == /\ reg' \in RegType /\ ledger' \in LedgerType /\ kills' \in Nat
                    /\ HistoryTyped'
           Locals(next, j) == /\ pc' = [pc EXCEPT ![c] = next]
                              /\ job' = [job EXCEPT ![c] = j]
<1>1. /\ reg \in RegType /\ ledger \in LedgerType /\ kills \in Nat /\ job[c] \in JobType
      /\ HistoryTyped
  BY DEF PoolTypeOK, RegType, LedgerType, HistoryTyped
<1>2. \A m \in Members : reg.models[m] \in ModelType
  BY <1>1 DEF RegType
<1>3. ASSUME Files, NEW next \in {"idle", "route", "check", "record"}, NEW j \in JobType,
             next # "idle" => j.goal \in Goals, Locals(next, j),
             reg' = reg \/ reg'.selected # NoWorker,
             next = "check" => reg'.selected # NoWorker
      PROVE  PoolTypeOK'
  <2>1. pc' \in [Callers -> {"idle", "route", "check", "record"}] /\ job' \in [Callers -> JobType]
    BY <1>3 DEF PoolTypeOK
  <2>2. \A d \in Callers : pc'[d] # "idle" => job'[d].goal \in Goals
    BY <1>3 DEF PoolTypeOK
  <2>3. \A d \in Callers : pc'[d] = "check" => reg'.selected # NoWorker
    BY <1>3 DEF PoolTypeOK
  <2> QED
    BY <1>3, <2>1, <2>2, <2>3 DEF PoolTypeOK, RegType, LedgerType, HistoryTyped
<1>4. CASE Begin(c)
  <2>1. PICK g \in Goals : job' = [job EXCEPT ![c] = [NoJob EXCEPT !.goal = g, !.models = reg.models]]
    BY <1>4 DEF Begin, SetJob
  <2>2. [NoJob EXCEPT !.goal = g, !.models = reg.models] \in JobType
    BY <1>1, JobTyped DEF RegType, Workers
  <2>3. [NoJob EXCEPT !.goal = g, !.models = reg.models].goal = g
    BY DEF NoJob
  <2> HIDE DEF Files
  <2>4. Files
    BY <1>1, <1>4 DEF Files, Begin, HistoryTyped, history
  <2> QED
    BY <1>3, <1>4, <2>1, <2>2, <2>3, <2>4 DEF Begin, Goto
<1>5. CASE Return(c) /\ Files /\ (reg' = reg \/ reg'.selected # NoWorker)
  BY <1>3, <1>5, JobTyped, <1>1 DEF Return, Goto, SetJob, JobType
<1>7. CASE Route(c)
  <2>1. PICK workflow \in Workflows, repair \in BOOLEAN :
          \E w \in Choices(job[c].models, job[c].goal, workflow, repair) :
            /\ reg' = [reg EXCEPT !.models = job[c].models, !.selected = w]
            /\ SetJob(c, [NoJob EXCEPT !.goal = job[c].goal, !.repair = repair])
    BY <1>7, Zenon DEF Route
  <2>2. PICK w \in Workers : reg' = [reg EXCEPT !.models = job[c].models, !.selected = w]
    BY <2>1, ChoicesAreWorkers
  <2>3. job[c].models \in [Members -> ModelType] /\ job[c].goal \in Goals
    BY <1>1, <1>7 DEF JobType, Route, PoolTypeOK
  <2>4. Files
    BY <1>1, <1>7, <2>2, <2>3 DEF Route, RegType, HistoryTyped, history
  <2>5. /\ [NoJob EXCEPT !.goal = job[c].goal, !.repair = repair] \in JobType
        /\ [NoJob EXCEPT !.goal = job[c].goal, !.repair = repair].goal = job[c].goal
    BY <1>1, <2>3, JobTyped DEF NoJob, Workers
  <2>6. reg'.selected # NoWorker
    BY <1>1, <2>2, PoolAssumption DEF RegType
  <2>7. Locals("check", [NoJob EXCEPT !.goal = job[c].goal, !.repair = repair])
    BY <1>7, <2>1 DEF Route, Goto, SetJob
  <2> HIDE DEF Files, Locals
  <2> QED
    BY <1>3, <2>3, <2>4, <2>5, <2>6, <2>7
<1>8. CASE RouteRefused(c) \/ RecordRefused(c)
  <2>1. Return(c) /\ UNCHANGED <<reg, ledger, kills, history>>
    BY <1>8 DEF RouteRefused, RecordRefused
  <2>2. Files /\ reg' = reg
    BY <1>1, <2>1 DEF HistoryTyped, history
  <2> HIDE DEF Files
  <2> QED
    BY <1>5, <2>1, <2>2
<1>9. CASE Check(c)
  <2>1. Files /\ reg' = reg
    BY <1>1, <1>9 DEF Check, HistoryTyped, history
  <2>2. CASE Return(c)
    <3> HIDE DEF Files
    <3> QED
      BY <1>5, <2>1, <2>2
  <2>3. CASE SetJob(c, [job[c] EXCEPT !.model = reg.selected]) /\ Goto(c, "record")
    <3>1. reg.selected \in Workers /\ job[c].goal \in Goals
      BY <1>1, <1>9 DEF Check, PoolTypeOK, RegType
    <3>2. /\ [job[c] EXCEPT !.model = reg.selected] \in JobType
          /\ [job[c] EXCEPT !.model = reg.selected].goal = job[c].goal
      BY <1>1, <3>1 DEF JobType
    <3>3. Locals("record", [job[c] EXCEPT !.model = reg.selected]) /\ reg' = reg
      BY <1>9, <2>3 DEF Check, Goto, SetJob
    <3> HIDE DEF Files, Locals
    <3> QED
      BY <1>3, <2>1, <3>1, <3>2, <3>3
  <2> QED
    BY <1>9, <2>2, <2>3 DEF Check
<1>10. CASE RecordAttempt(c)
  <2>1. PICK result \in Results :
          LET j == job[c]
              counts == j.model = "p40" /\ result = "substantive"
              tried == [reg EXCEPT !.selected = j.model,
                                   !.p40[j.goal] = @ + IF counts THEN 1 ELSE 0]
          IN  Update(IF j.model = "copilot"
                     THEN SetModel(tried, "copilot", AfterResult(reg.models["copilot"], result))
                     ELSE tried,
                     [ledger EXCEPT !.p40[j.goal] = @ + IF counts THEN 1 ELSE 0])
    BY <1>10 DEF RecordAttempt
  <2> DEFINE n == IF job[c].model = "p40" /\ result = "substantive" THEN 1 ELSE 0
             tried == [reg EXCEPT !.selected = job[c].model, !.p40[job[c].goal] = @ + n]
             l == [ledger EXCEPT !.p40[job[c].goal] = @ + n]
             r == IF job[c].model = "copilot"
                  THEN SetModel(tried, "copilot", AfterResult(reg.models["copilot"], result))
                  ELSE tried
  <2>2. n \in Nat
    OBVIOUS
  <2>3. Update(r, l)
    BY <2>1
  <2>4. job[c].model \in Workers /\ job[c].goal \in Goals
    BY <1>1, <1>10 DEF JobType, RecordAttempt, PoolTypeOK
  <2> HIDE DEF n
  <2>5. tried \in RegType /\ l \in LedgerType /\ tried.selected = job[c].model
    <3>1. /\ reg.p40 \in [Goals -> Nat] /\ ledger.p40 \in [Goals -> Nat]
          /\ reg.p40[job[c].goal] + n \in Nat /\ ledger.p40[job[c].goal] + n \in Nat
      BY <1>1, <2>2, <2>4 DEF RegType, LedgerType
    <3> DEFINE p40 == [reg.p40 EXCEPT ![job[c].goal] = @ + n]
               lp40 == [ledger.p40 EXCEPT ![job[c].goal] = @ + n]
    <3>2. p40 \in [Goals -> Nat] /\ lp40 \in [Goals -> Nat]
      BY <3>1
    <3>3. tried = [reg EXCEPT !.selected = job[c].model, !.p40 = p40] /\ l = [ledger EXCEPT !.p40 = lp40]
      OBVIOUS
    <3> HIDE DEF p40, lp40, tried, l
    <3> QED
      BY <1>1, <2>4, <3>2, <3>3 DEF RegType, LedgerType
  <2> HIDE DEF tried, l
  <2>6. AfterResult(reg.models["copilot"], result) \in ModelType /\ "copilot" \in Members
    BY <1>2, AfterResultTyped DEF Members, Recovery
  <2>7. r \in RegType /\ r.selected = job[c].model
    BY <2>5, <2>6, SetModelTyped
  <2> HIDE DEF r
  <2>8. Files /\ reg' = r
    BY <2>3, <2>5, <2>7, UpdateTyped DEF Update
  <2> QED
    BY <1>5, <1>10, <2>4, <2>7, <2>8, PoolAssumption DEF RecordAttempt
<1>11. CASE Verify(c)
  <2>1. reg' \in RegType /\ reg'.selected # NoWorker
    BY <1>1, <1>11, PoolAssumption DEF Verify, RegType, Workers, Members, Recovery
  <2> QED
    BY <1>11, <2>1 DEF Verify, PoolTypeOK, RegType, history
<1> QED
  BY <1>4, <1>7, <1>8, <1>9, <1>10, <1>11 DEF Caller

LEMMA StepTyped == PoolTypeOK /\ [Next]_vars => PoolTypeOK'
<1> SUFFICES ASSUME PoolTypeOK, [Next]_vars PROVE PoolTypeOK'
  OBVIOUS
<1>1. CASE UNCHANGED vars
  BY <1>1 DEF vars, history, PoolTypeOK
<1> QED
  BY <1>1, TransactionTyped, CallerTyped DEF Next

\* Types, and no step of attempt_coding_task without its goal, or before there
\* is a selected model to compare.
THEOREM PoolTypeCorrect == Spec => []PoolTypeOK
  BY InitTyped, StepTyped, PTL DEF Spec

\* However many processes change the pool, and however often one is killed
\* between the two files: observing the pool twice in a row moves nobody to
\* and fro.
THEOREM ObservationsSettle == Spec => []ObservationSettles
<1>1. PoolTypeOK => ObservationSettles
  BY ObservedSettles DEF PoolTypeOK, RegType, ObservationSettles
<1> QED
  BY <1>1, PoolTypeCorrect, PTL

-----------------------------------------------------------------------------
(* The two files agree. *)

\* What a caller will write back was accounted for when it read it.
SnapshotAccounted ==
  \A c \in Callers, m \in Members :
    job[c].models[m].fails <= given[m] + Recorded(m) + kills

AccountInv == FailuresAccounted /\ SnapshotAccounted

\* A step after which as many failures were ever recorded as before.
NoneRecorded ==
  /\ kills' = kills
  /\ \A g \in Goals : ledger'.p40[g] + erased'.p40[g] = ledger.p40[g] + erased.p40[g]
  /\ \A m \in Members :
       /\ ledger'.models[m] + erased'.models[m] = ledger.models[m] + erased.models[m]
       /\ given'[m] >= given[m]

LEMMA Numbers ==
  ASSUME PoolTypeOK
  PROVE  /\ kills \in Nat
         /\ \A g \in Goals :
              reg.p40[g] \in Nat /\ ledger.p40[g] \in Nat /\ erased.p40[g] \in Nat
         /\ \A m \in Members :
              /\ reg.models[m] \in ModelType /\ reg.models[m].fails \in Nat
              /\ ledger.models[m] \in Nat /\ erased.models[m] \in Nat /\ given[m] \in Nat
         /\ \A c \in Callers, m \in Members : job[c].models[m].fails \in Nat
  BY DEF PoolTypeOK, ModelType, JobType

LEMMA HistoryKept ==
  ASSUME PoolTypeOK, UNCHANGED <<ledger, kills, history>>
  PROVE  NoneRecorded
  BY Numbers DEF history, NoneRecorded

LEMMA InitAccounted == Init => AccountInv
<1> SUFFICES ASSUME Init PROVE AccountInv
  OBVIOUS
<1>1. \A recovery \in {"active", "standby"}, m \in Members : Seeded(recovery).models[m].fails = 0
  BY DEF Seeded, Fresh
<1>2. \A recovery \in {"active", "standby"}, g \in Goals : Seeded(recovery).p40[g] = 0
  BY DEF Seeded
<1>3. \A m \in Members : NoJob.models[m].fails = 0
  BY DEF NoJob, Seeded, Fresh
<1>4. \A c \in Callers, m \in Members : job[c].models[m].fails = 0
  <2>1. \A c \in Callers : job[c] = NoJob
    BY DEF Init
  <2> QED
    BY <1>3, <2>1
<1>5. /\ \A g \in Goals : ledger.p40[g] = 0
      /\ \A m \in Members : ledger.models[m] = 0
      /\ \A g \in Goals : erased.p40[g] = 0
      /\ \A m \in Members : erased.models[m] = 0 /\ given[m] = 0
      /\ kills = 0
  BY DEF Init, NoFailures
<1>6. /\ \A g \in Goals : reg.p40[g] = 0
      /\ \A m \in Members : reg.models[m].fails = 0
  <2>1. PICK recovery \in {"active", "standby"} : reg = Seeded(recovery)
    BY DEF Init
  <2> QED
    BY <1>1, <1>2, <2>1
<1> QED
  BY <1>4, <1>5, <1>6
  DEF AccountInv, FailuresAccounted, SnapshotAccounted, P40Recorded, Recorded

\* A step that counts no failure.
LEMMA Uncounted ==
  ASSUME PoolTypeOK, AccountInv, NoneRecorded, reg'.p40 = reg.p40,
         \A m \in Members : \/ reg'.models[m].fails <= reg.models[m].fails
                           \/ reg'.models[m].fails <= given'[m]
                           \/ \E c \in Callers : reg'.models[m].fails = job[c].models[m].fails,
         \A c \in Callers : job'[c].models \in {job[c].models, reg.models, NoJob.models},
         PoolTypeOK'
  PROVE  AccountInv'
<1>1. \A m \in Members :
        /\ reg'.models[m].fails \in Nat /\ given'[m] \in Nat
        /\ ledger'.models[m] \in Nat /\ erased'.models[m] \in Nat /\ kills' \in Nat
  BY DEF PoolTypeOK, ModelType
<1>2. \A m \in Members :
        given[m] + Recorded(m) + kills
          <= given'[m] + (ledger'.models[m] + erased'.models[m]) + kills'
  BY <1>1, Numbers DEF Recorded, NoneRecorded
<1>3. \A m \in Members :
        reg'.models[m].fails <= given'[m] + (ledger'.models[m] + erased'.models[m]) + kills'
  <2> SUFFICES ASSUME NEW m \in Members
               PROVE  reg'.models[m].fails
                        <= given'[m] + (ledger'.models[m] + erased'.models[m]) + kills'
    OBVIOUS
  <2> DEFINE sum == given[m] + Recorded(m) + kills
             sum2 == given'[m] + (ledger'.models[m] + erased'.models[m]) + kills'
  <2>1. sum \in Nat /\ sum2 \in Nat /\ sum <= sum2 /\ given'[m] <= sum2
    BY <1>1, <1>2, Numbers DEF Recorded
  <2>2. /\ reg.models[m].fails <= sum
        /\ \A c \in Callers : job[c].models[m].fails <= sum
    BY DEF AccountInv, FailuresAccounted, SnapshotAccounted
  <2> HIDE DEF sum, sum2
  <2>3. reg'.models[m].fails <= sum2
    BY <1>1, <2>1, <2>2, Numbers
  <2> QED
    BY <2>3 DEF sum2
<1>4. FailuresAccounted'
  BY <1>3, Numbers DEF AccountInv, FailuresAccounted, P40Recorded, Recorded, NoneRecorded
<1>5. \A m \in Members : NoJob.models[m].fails = 0
  BY DEF NoJob, Seeded, Fresh
<1>6. SnapshotAccounted'
  <2> SUFFICES ASSUME NEW c \in Callers, NEW m \in Members
               PROVE  job'[c].models[m].fails
                        <= given'[m] + (ledger'.models[m] + erased'.models[m]) + kills'
    BY DEF SnapshotAccounted, Recorded
  <2> DEFINE sum == given[m] + Recorded(m) + kills
             sum2 == given'[m] + (ledger'.models[m] + erased'.models[m]) + kills'
  <2>1. sum \in Nat /\ sum2 \in Nat /\ sum <= sum2
    BY <1>1, <1>2, Numbers DEF Recorded
  <2>2. /\ reg.models[m].fails <= sum /\ job[c].models[m].fails <= sum
        /\ NoJob.models[m].fails <= sum
    BY <1>5, <2>1 DEF AccountInv, FailuresAccounted, SnapshotAccounted
  <2>3. job'[c].models = job[c].models \/ job'[c].models = reg.models \/ job'[c].models = NoJob.models
    OBVIOUS
  <2> HIDE DEF sum, sum2
  <2>4. job'[c].models[m].fails <= sum2
    BY <1>5, <2>1, <2>2, <2>3, Numbers
  <2> QED
    BY <2>4 DEF sum2
<1> QED
  BY <1>4, <1>6 DEF AccountInv

\* A step that counts one failure, in the registry and perhaps in the ledger.
LEMMA FailureAccounted ==
  ASSUME PoolTypeOK, AccountInv, NEW m \in Members, RecordFailure(m)
  PROVE  AccountInv'
<1>1. reg \in RegType /\ reg.models[m] \in ModelType /\ ledger \in LedgerType /\ kills \in Nat
  BY DEF PoolTypeOK, RegType, LedgerType
<1> DEFINE r == SetModel(reg, m, AfterFailure(reg.models[m]))
           l == [ledger EXCEPT !.models[m] = @ + 1]
<1>2. Update(r, l) /\ UNCHANGED <<pc, job>>
  BY DEF RecordFailure
<1>3. /\ r.p40 = reg.p40 /\ r.models[m].fails = reg.models[m].fails + 1
      /\ \A o \in Members : o # m => r.models[o] = reg.models[o]
  BY <1>1, SetModelTyped, AfterFailureTyped
<1>4. /\ l.p40 = ledger.p40 /\ l.models[m] = ledger.models[m] + 1
      /\ \A o \in Members : o # m => l.models[o] = ledger.models[o]
  BY <1>1 DEF LedgerType
<1> HIDE DEF r, l
<1>5. erased' = erased /\ given' = given /\ reg' = r
  BY <1>2 DEF Update, history
<1> USE Numbers DEF AccountInv, FailuresAccounted, SnapshotAccounted, P40Recorded, Recorded
<1>6. CASE ledger' = l /\ UNCHANGED kills
  BY <1>2, <1>3, <1>4, <1>5, <1>6
<1>7. CASE ledger' = ledger /\ kills' = kills + 1
  BY <1>2, <1>3, <1>5, <1>7
<1> QED
  BY <1>2, <1>6, <1>7 DEF Update

LEMMA TransactionAccounted ==
  ASSUME PoolTypeOK, AccountInv, Pool, PoolTypeOK'
  PROVE  AccountInv'
<1>1. reg \in RegType /\ \A m \in Members : reg.models[m] \in ModelType
  BY DEF PoolTypeOK, RegType
<1>2. CASE Observe
  BY <1>1, <1>2, HistoryKept, ObservedTyped, Uncounted DEF Observe, ModelType
<1>3. ASSUME NEW m \in Members, NEW model \in ModelType, model.fails <= reg.models[m].fails,
             reg' = SetModel(reg, m, model), UNCHANGED <<ledger, pc, job, kills, history>>
      PROVE  AccountInv'
  <2>1. \A o \in Members : reg'.models[o].fails <= reg.models[o].fails
    <3>1. /\ reg'.models[m] = model
          /\ \A o \in Members : o # m => reg'.models[o] = reg.models[o]
      BY <1>1, <1>3, SetModelTyped
    <3>2. \A o \in Members : reg.models[o].fails \in Nat
      BY <1>1 DEF ModelType
    <3> QED
      BY <1>3, <3>1, <3>2
  <2> QED
    BY <1>1, <1>3, <2>1, HistoryKept, SetModelTyped, Uncounted
<1>4. ASSUME NEW m \in Members, RecordSuccess(m) PROVE AccountInv'
  <2>1. /\ [reg.models[m] EXCEPT !.fails = 0] \in ModelType
        /\ [reg.models[m] EXCEPT !.fails = 0].fails <= reg.models[m].fails
    BY <1>1 DEF ModelType
  <2> QED
    BY <1>3, <1>4, <2>1 DEF RecordSuccess
<1>5. ASSUME NEW m \in Members, NEW exhausted \in BOOLEAN, SetCredit(m, exhausted)
      PROVE  AccountInv'
  <2>1. /\ [reg.models[m] EXCEPT !.exhausted = exhausted] \in ModelType
        /\ [reg.models[m] EXCEPT !.exhausted = exhausted].fails <= reg.models[m].fails
    BY <1>1 DEF ModelType
  <2> QED
    BY <1>3, <1>5, <2>1 DEF SetCredit
<1>6. ASSUME NEW m \in Members, Reactivate(m) PROVE AccountInv'
  <2>1. reg.models[m] \in ModelType /\ 0 <= reg.models[m].fails
    BY <1>1 DEF ModelType
  <2>2. ASSUME NEW model \in ModelType
        PROVE  /\ [model EXCEPT !.status = "active", !.fails = 0] \in ModelType
               /\ [model EXCEPT !.status = "active", !.fails = 0].fails = 0
    BY DEF ModelType
  <2> DEFINE model == [reg.models[m] EXCEPT !.status = "active", !.fails = 0]
  <2>3. model \in ModelType /\ model.fails <= reg.models[m].fails
    BY <2>1, <2>2
  <2>4. reg' = SetModel(reg, m, model) /\ UNCHANGED <<ledger, pc, job, kills, history>>
    BY <1>6 DEF Reactivate
  <2> HIDE DEF model
  <2> QED
    BY <1>3, <2>3, <2>4
<1>7. ASSUME NEW m \in Members, NEW n \in Nat, SetFailureCount(m, n) PROVE AccountInv'
  <2> DEFINE model == [reg.models[m] EXCEPT !.fails = n]
             top == IF n > given[m] THEN n ELSE given[m]
  <2>1. model \in ModelType /\ model.fails = n
    BY <1>1 DEF ModelType
  <2>2. reg' = SetModel(reg, m, model) /\ given' = [given EXCEPT ![m] = top]
        /\ UNCHANGED <<ledger, job, kills, erased>>
    BY <1>7 DEF SetFailureCount
  <2> HIDE DEF model
  <2>3. top >= n /\ top >= given[m] /\ given \in [Members -> Nat]
    BY Numbers DEF PoolTypeOK
  <2> HIDE DEF top
  <2>4. given'[m] = top /\ \A o \in Members : o # m => given'[o] = given[o]
    BY <2>2, <2>3
  <2>5. NoneRecorded
    BY <2>2, <2>3, <2>4, Numbers DEF NoneRecorded
  <2>6. /\ reg'.p40 = reg.p40 /\ reg'.models[m].fails <= given'[m]
        /\ \A o \in Members : o # m => reg'.models[o].fails <= reg.models[o].fails
    BY <1>1, <2>1, <2>2, <2>3, <2>4, SetModelTyped, Numbers
  <2> QED
    BY <2>2, <2>5, <2>6, Uncounted
<1>8. CASE ClearLedger
  <2>1. NoneRecorded
    BY <1>8, Numbers DEF ClearLedger, NoneRecorded, NoFailures, P40Recorded, Recorded
  <2>2. UNCHANGED <<reg, job>>
    BY <1>8 DEF ClearLedger
  <2> QED
    BY <2>1, <2>2, Numbers, Uncounted
<1> QED
  BY <1>2, <1>4, <1>5, <1>6, <1>7, <1>8, FailureAccounted, PoolAssumption DEF Pool

\* What record_attempt_result writes: the attempt's goal one up in both files
\* or in neither, and no model's failures changed.
LEMMA AttemptFiles ==
  ASSUME PoolTypeOK, NEW c \in Callers, RecordAttempt(c)
  PROVE  \E n \in {0, 1}, r \in RegType, l \in LedgerType :
           /\ Update(r, l)
           /\ r.p40 = [reg.p40 EXCEPT ![job[c].goal] = @ + n]
           /\ \A m \in Members : r.models[m].fails = reg.models[m].fails
           /\ l.models = ledger.models
           /\ l.p40 = [ledger.p40 EXCEPT ![job[c].goal] = @ + n]
           /\ r.selected = job[c].model
<1>1. reg \in RegType /\ ledger \in LedgerType /\ job[c] \in JobType /\ job[c].goal \in Goals
  BY DEF PoolTypeOK, RegType, LedgerType, RecordAttempt
<1>2. \A m \in Members : reg.models[m] \in ModelType
  BY <1>1 DEF RegType
<1>3. PICK result \in Results :
        LET j == job[c]
            counts == j.model = "p40" /\ result = "substantive"
            tried == [reg EXCEPT !.selected = j.model,
                                 !.p40[j.goal] = @ + IF counts THEN 1 ELSE 0]
        IN  Update(IF j.model = "copilot"
                   THEN SetModel(tried, "copilot", AfterResult(reg.models["copilot"], result))
                   ELSE tried,
                   [ledger EXCEPT !.p40[j.goal] = @ + IF counts THEN 1 ELSE 0])
  BY DEF RecordAttempt
<1> DEFINE n == IF job[c].model = "p40" /\ result = "substantive" THEN 1 ELSE 0
           tried == [reg EXCEPT !.selected = job[c].model, !.p40[job[c].goal] = @ + n]
           l == [ledger EXCEPT !.p40[job[c].goal] = @ + n]
           r == IF job[c].model = "copilot"
                THEN SetModel(tried, "copilot", AfterResult(reg.models["copilot"], result))
                ELSE tried
<1>4. n \in {0, 1} /\ Update(r, l)
  BY <1>3
<1>5. job[c].model \in Workers
  BY <1>1 DEF JobType
<1> HIDE DEF n
<1>6. /\ tried \in RegType /\ tried.selected = job[c].model /\ tried.models = reg.models
      /\ tried.p40 = [reg.p40 EXCEPT ![job[c].goal] = @ + n]
      /\ l \in LedgerType /\ l.models = ledger.models
      /\ l.p40 = [ledger.p40 EXCEPT ![job[c].goal] = @ + n]
  <2>1. /\ reg.p40 \in [Goals -> Nat] /\ ledger.p40 \in [Goals -> Nat]
        /\ reg.p40[job[c].goal] + n \in Nat /\ ledger.p40[job[c].goal] + n \in Nat
    BY <1>1, <1>4 DEF RegType, LedgerType
  <2> DEFINE p40 == [reg.p40 EXCEPT ![job[c].goal] = @ + n]
             lp40 == [ledger.p40 EXCEPT ![job[c].goal] = @ + n]
  <2>2. p40 \in [Goals -> Nat] /\ lp40 \in [Goals -> Nat]
    BY <2>1
  <2>3. tried = [reg EXCEPT !.selected = job[c].model, !.p40 = p40] /\ l = [ledger EXCEPT !.p40 = lp40]
    OBVIOUS
  <2> HIDE DEF p40, lp40, tried, l
  <2>4. /\ tried \in RegType /\ tried.selected = job[c].model /\ tried.models = reg.models
        /\ tried.p40 = p40 /\ l \in LedgerType /\ l.models = ledger.models /\ l.p40 = lp40
    BY <1>1, <1>5, <2>2, <2>3 DEF RegType, LedgerType
  <2> QED
    BY <2>4 DEF p40, lp40
<1> HIDE DEF tried, l
<1>7. /\ "copilot" \in Members
      /\ AfterResult(reg.models["copilot"], result) \in ModelType
      /\ AfterResult(reg.models["copilot"], result).fails = reg.models["copilot"].fails
  BY <1>2, AfterResultTyped DEF Members, Recovery
<1>8. /\ r \in RegType /\ r.selected = job[c].model /\ r.p40 = tried.p40
      /\ \A m \in Members : r.models[m].fails = reg.models[m].fails
  BY <1>6, <1>7, SetModelTyped
<1> HIDE DEF r
<1> QED
  BY <1>4, <1>6, <1>8

LEMMA AttemptAccounted ==
  ASSUME PoolTypeOK, AccountInv, NEW c \in Callers, RecordAttempt(c)
  PROVE  AccountInv'
<1>1. PICK n \in {0, 1}, r \in RegType, l \in LedgerType :
        /\ Update(r, l)
        /\ r.p40 = [reg.p40 EXCEPT ![job[c].goal] = @ + n]
        /\ \A m \in Members : r.models[m].fails = reg.models[m].fails
        /\ l.models = ledger.models
        /\ l.p40 = [ledger.p40 EXCEPT ![job[c].goal] = @ + n]
  BY AttemptFiles
<1>2. /\ reg.p40 \in [Goals -> Nat] /\ ledger.p40 \in [Goals -> Nat]
      /\ job[c].goal \in Goals
  BY DEF PoolTypeOK, RegType, LedgerType, RecordAttempt
<1>3. /\ reg' = r /\ erased' = erased /\ given' = given
      /\ \/ ledger' = l /\ kills' = kills
         \/ ledger' = ledger /\ kills' = kills + 1
  BY <1>1 DEF Update, history
<1>4. kills' \in Nat /\ kills' >= kills /\ ledger'.models = ledger.models
  BY <1>1, <1>3, Numbers
<1>5. \A g \in Goals :
        /\ ledger'.p40[g] + erased'.p40[g] <= reg'.p40[g]
        /\ reg'.p40[g] <= ledger'.p40[g] + erased'.p40[g] + kills'
  <2> SUFFICES ASSUME NEW g \in Goals
               PROVE  /\ ledger'.p40[g] + erased'.p40[g] <= reg'.p40[g]
                      /\ reg'.p40[g] <= ledger'.p40[g] + erased'.p40[g] + kills'
    OBVIOUS
  <2>1. /\ ledger.p40[g] + erased.p40[g] <= reg.p40[g]
        /\ reg.p40[g] <= ledger.p40[g] + erased.p40[g] + kills
    BY DEF AccountInv, FailuresAccounted, P40Recorded
  <2>2. /\ r.p40[g] = reg.p40[g] + (IF g = job[c].goal THEN n ELSE 0)
        /\ l.p40[g] = ledger.p40[g] + (IF g = job[c].goal THEN n ELSE 0)
        /\ reg.p40[g] \in Nat /\ ledger.p40[g] \in Nat /\ erased.p40[g] \in Nat
    BY <1>1, <1>2, Numbers
  <2> QED
    BY <1>3, <2>1, <2>2, Numbers
<1>6. \A m \in Members : given[m] + Recorded(m) + kills \in Nat
                         /\ given[m] + Recorded(m) + kills
                              <= given'[m] + (ledger'.models[m] + erased'.models[m]) + kills'
  BY <1>3, <1>4, Numbers DEF Recorded
<1>7. \A m \in Members :
        reg'.models[m].fails <= given'[m] + (ledger'.models[m] + erased'.models[m]) + kills'
  BY <1>1, <1>3, <1>4, <1>6, Numbers DEF AccountInv, FailuresAccounted, Recorded
<1>8. SnapshotAccounted'
  <2>1. \A d \in Callers : job'[d].models \in {job[d].models, NoJob.models}
    BY DEF RecordAttempt, Return, SetJob, PoolTypeOK
  <2>2. \A m \in Members : NoJob.models[m].fails = 0
    BY DEF NoJob, Seeded, Fresh
  <2> SUFFICES ASSUME NEW d \in Callers, NEW m \in Members
               PROVE  job'[d].models[m].fails
                        <= given'[m] + (ledger'.models[m] + erased'.models[m]) + kills'
    BY DEF SnapshotAccounted, Recorded
  <2>3. job'[d].models = job[d].models \/ job'[d].models = NoJob.models
    BY <2>1
  <2> QED
    BY <1>3, <1>4, <1>6, <2>2, <2>3, Numbers DEF AccountInv, SnapshotAccounted, Recorded
<1> QED
  BY <1>5, <1>7, <1>8 DEF AccountInv, FailuresAccounted, P40Recorded, Recorded

LEMMA CallerAccounted ==
  ASSUME PoolTypeOK, AccountInv, NEW c \in Callers, Caller(c), PoolTypeOK'
  PROVE  AccountInv'
<1>1. reg \in RegType /\ job \in [Callers -> JobType] /\ \A m \in Members : reg.models[m].fails \in Nat
  BY DEF PoolTypeOK, RegType, ModelType
<1>2. ASSUME UNCHANGED <<reg, ledger, kills, history>>,
             \A d \in Callers : job'[d].models \in {job[d].models, reg.models, NoJob.models}
      PROVE  AccountInv'
  BY <1>1, <1>2, HistoryKept, Uncounted
<1>3. CASE Begin(c)
  <2>1. \A d \in Callers : job'[d].models \in {job[d].models, reg.models}
    BY <1>1, <1>3 DEF Begin, SetJob, NoJob
  <2> QED
    BY <1>2, <1>3, <2>1 DEF Begin
<1>4. CASE RouteRefused(c) \/ RecordRefused(c) \/ Check(c)
  <2>1. \A d \in Callers : job'[d].models \in {job[d].models, NoJob.models}
    <3>1. CASE Return(c)
      BY <1>1, <3>1 DEF Return, SetJob
    <3>2. CASE SetJob(c, [job[c] EXCEPT !.model = reg.selected])
      <4>1. [job[c] EXCEPT !.model = reg.selected].models = job[c].models
        BY <1>1 DEF JobType
      <4> QED
        BY <1>1, <3>2, <4>1 DEF SetJob
    <3> QED
      BY <1>4, <3>1, <3>2 DEF RouteRefused, RecordRefused, Check
  <2> QED
    BY <1>2, <1>4, <2>1 DEF RouteRefused, RecordRefused, Check
<1>5. CASE Route(c)
  <2>1. /\ reg'.models = job[c].models /\ reg'.p40 = reg.p40
        /\ UNCHANGED <<ledger, kills, history>>
    BY <1>1, <1>5 DEF Route, RegType
  <2>2. \A d \in Callers : job'[d].models \in {job[d].models, NoJob.models}
    <3>1. PICK repair \in BOOLEAN :
            job' = [job EXCEPT ![c] = [NoJob EXCEPT !.goal = job[c].goal, !.repair = repair]]
      BY <1>5 DEF Route, SetJob
    <3>2. [NoJob EXCEPT !.goal = job[c].goal, !.repair = repair].models = NoJob.models
      BY DEF NoJob
    <3> QED
      BY <1>1, <3>1, <3>2
  <2> QED
    BY <2>1, <2>2, HistoryKept, Uncounted
<1>6. CASE Verify(c)
  <2>1. reg'.models = reg.models /\ reg'.p40 = reg.p40 /\ UNCHANGED <<ledger, kills, job, history>>
    BY <1>1, <1>6 DEF Verify, RegType
  <2> QED
    BY <1>1, <2>1, HistoryKept, Uncounted
<1> QED
  BY <1>3, <1>4, <1>5, <1>6, AttemptAccounted DEF Caller

LEMMA StepAccounted == PoolTypeOK /\ AccountInv /\ [Next]_vars => AccountInv'
<1> SUFFICES ASSUME PoolTypeOK, AccountInv, [Next]_vars PROVE AccountInv'
  OBVIOUS
<1>1. PoolTypeOK'
  BY StepTyped
<1>2. CASE UNCHANGED vars
  BY <1>2
  DEF vars, history, AccountInv, FailuresAccounted, SnapshotAccounted, P40Recorded, Recorded
<1> QED
  BY <1>1, <1>2, TransactionAccounted, CallerAccounted DEF Next

\* With any number of processes that change the pool or write back what they
\* read long ago, and whatever an operator erases or sets by hand: the registry
\* has counted every failure ever in the ledger, and beyond these no more than
\* processes were killed, or, of a model, than it was given.
THEOREM FilesAgree == Spec => []FailuresAccounted
<1>1. AccountInv => FailuresAccounted
  BY DEF AccountInv
<1> QED
  BY <1>1, InitAccounted, StepAccounted, PoolTypeCorrect, PTL DEF Spec

-----------------------------------------------------------------------------
(* An escalation is earned. *)

EarnedIn(l, e, k, g) == l.p40[g] + e.p40[g] + k >= Threshold
Earned(g) == EarnedIn(ledger, erased, kills, g)

\* From the routing on: what is selected for a caller was earned.
SelectionEarned ==
  \A c \in Callers :
    pc[c] = "check" /\ ~job[c].repair /\ reg.selected # "p40" => Earned(job[c].goal)

EarnedInv == SelectionEarned /\ EscalationEarned

\* What was earned stays earned.
LEMMA EarnedStays ==
  ASSUME PoolTypeOK, NEW g \in Goals, Earned(g), Next
  PROVE  EarnedIn(ledger', erased', kills', g)
<1>1. /\ ledger.p40[g] \in Nat /\ erased.p40[g] \in Nat /\ kills \in Nat /\ Threshold \in Nat
      /\ ledger \in LedgerType
  BY PoolAssumption DEF PoolTypeOK, LedgerType
<1>2. CASE UNCHANGED <<ledger, erased, kills>>
  BY <1>2 DEF Earned, EarnedIn
<1>3. ASSUME NEW m \in Members, RecordFailure(m) PROVE EarnedIn(ledger', erased', kills', g)
  <2>1. [ledger EXCEPT !.models[m] = @ + 1].p40 = ledger.p40
    BY <1>1 DEF LedgerType
  <2>2. /\ erased' = erased
        /\ \/ ledger'.p40 = ledger.p40 /\ kills' = kills
           \/ ledger' = ledger /\ kills' = kills + 1
    BY <1>3, <2>1 DEF RecordFailure, Update, history
  <2> QED
    BY <1>1, <2>2 DEF Earned, EarnedIn
<1>4. ASSUME NEW c \in Callers, RecordAttempt(c) PROVE EarnedIn(ledger', erased', kills', g)
  <2>1. PICK n \in {0, 1}, r \in RegType, l \in LedgerType :
          /\ Update(r, l)
          /\ r.p40 = [reg.p40 EXCEPT ![job[c].goal] = @ + n]
          /\ \A m \in Members : r.models[m].fails = reg.models[m].fails
          /\ l.models = ledger.models
          /\ l.p40 = [ledger.p40 EXCEPT ![job[c].goal] = @ + n]
          /\ r.selected = job[c].model
    BY <1>4, AttemptFiles
  <2>2. l.p40[g] >= ledger.p40[g] /\ l.p40[g] \in Nat
    BY <1>1, <2>1 DEF LedgerType
  <2>3. /\ erased' = erased
        /\ \/ ledger' = l /\ kills' = kills
           \/ ledger' = ledger /\ kills' = kills + 1
    BY <2>1 DEF Update, history
  <2> QED
    BY <1>1, <2>2, <2>3 DEF Earned, EarnedIn
<1>5. CASE ClearLedger
  BY <1>1, <1>5 DEF ClearLedger, NoFailures, P40Recorded, Earned, EarnedIn
<1> QED
  BY <1>2, <1>3, <1>4, <1>5, PoolAssumption
  DEF Next, Pool, Caller, Observe, RecordSuccess, Reactivate, SetCredit, SetFailureCount, Begin,
      Route, RouteRefused, Check, RecordRefused, Verify, history

\* A step that selects nothing, and after which nobody checks or records who
\* did not before.
LEMMA NothingSelected ==
  ASSUME PoolTypeOK, EarnedInv, Next, reg'.selected = reg.selected,
         \A c \in Callers :
           pc'[c] \in {"check", "record"} => pc'[c] = pc[c] /\ job'[c] = job[c]
  PROVE  EarnedInv'
<1> SUFFICES ASSUME NEW c \in Callers, pc'[c] \in {"check", "record"}, ~job'[c].repair,
                    pc'[c] = "check" => reg'.selected # "p40",
                    pc'[c] = "record" => job'[c].model # "p40"
             PROVE  EarnedIn(ledger', erased', kills', job'[c].goal)
  BY DEF EarnedInv, SelectionEarned, EscalationEarned, P40Recorded, Earned, EarnedIn
<1>1. pc'[c] = pc[c] /\ job'[c] = job[c]
  OBVIOUS
<1>2. Earned(job[c].goal) /\ job[c].goal \in Goals
  BY <1>1 DEF EarnedInv, SelectionEarned, EscalationEarned, P40Recorded, Earned, EarnedIn, PoolTypeOK
<1> QED
  BY <1>1, <1>2, EarnedStays DEF Earned, EarnedIn

\* The routing chooses another model than the P40 for a goal that has failed
\* often enough, or for a repair.
LEMMA RouteEarned ==
  ASSUME PoolTypeOK, FailuresAccounted, NEW c \in Callers, Route(c)
  PROVE  ~job'[c].repair /\ reg'.selected # "p40" => EarnedIn(ledger', erased', kills', job'[c].goal)
<1>1. PICK workflow \in Workflows, repair \in BOOLEAN :
        \E w \in Choices(job[c].models, job[c].goal, workflow, repair) :
          /\ reg' = [reg EXCEPT !.models = job[c].models, !.selected = w]
          /\ SetJob(c, [NoJob EXCEPT !.goal = job[c].goal, !.repair = repair])
  BY Zenon DEF Route
<1>2. PICK w \in Choices(job[c].models, job[c].goal, workflow, repair) :
        /\ reg' = [reg EXCEPT !.models = job[c].models, !.selected = w]
        /\ SetJob(c, [NoJob EXCEPT !.goal = job[c].goal, !.repair = repair])
  BY <1>1, Zenon
<1>3. reg'.selected = w
  BY <1>2 DEF PoolTypeOK
<1>4. job'[c].goal = job[c].goal /\ job'[c].repair = repair
  BY <1>2 DEF SetJob, NoJob, PoolTypeOK
<1>5. ~repair /\ w # "p40" => ~(reg.p40[job[c].goal] < Threshold)
  BY <1>2 DEF Choices
<1>6. /\ job[c].goal \in Goals /\ UNCHANGED <<ledger, erased, kills>>
      /\ reg.p40[job[c].goal] \in Nat /\ kills \in Nat
      /\ ledger.p40[job[c].goal] \in Nat /\ erased.p40[job[c].goal] \in Nat
      /\ reg.p40[job[c].goal] <= ledger.p40[job[c].goal] + erased.p40[job[c].goal] + kills
  BY DEF Route, history, PoolTypeOK, FailuresAccounted, P40Recorded
<1> QED
  BY <1>3, <1>4, <1>5, <1>6, PoolAssumption DEF Earned, EarnedIn, PoolTypeOK

\* Of a single caller: no other's routing or recording comes in between.
LEMMA CallerEarned ==
  ASSUME PoolTypeOK, FailuresAccounted, EarnedInv, NEW c \in Callers, Caller(c),
         \A d \in Callers : d = c
  PROVE  EarnedInv'
<1>1. ASSUME pc'[c] \notin {"check", "record"} PROVE EarnedInv'
  BY <1>1 DEF EarnedInv, SelectionEarned, EscalationEarned
<1>2. CASE Begin(c) \/ RouteRefused(c) \/ RecordAttempt(c) \/ RecordRefused(c) \/ Verify(c)
  <2>1. pc'[c] \notin {"check", "record"}
    BY <1>2 DEF Begin, RouteRefused, RecordAttempt, RecordRefused, Verify, Return, Goto, PoolTypeOK
  <2> QED
    BY <1>1, <2>1
<1>3. CASE Route(c)
  <2>1. pc'[c] = "check"
    BY <1>3 DEF Route, Goto, PoolTypeOK
  <2> QED
    BY <1>3, <2>1, RouteEarned
    DEF EarnedInv, SelectionEarned, EscalationEarned, P40Recorded, Earned, EarnedIn
<1>4. CASE Check(c)
  <2>1. CASE Return(c)
    BY <1>1, <2>1 DEF Return, Goto, PoolTypeOK
  <2>2. CASE SetJob(c, [job[c] EXCEPT !.model = reg.selected]) /\ Goto(c, "record")
    <3>1. /\ job'[c].goal = job[c].goal /\ job'[c].repair = job[c].repair
          /\ job'[c].model = reg.selected /\ pc'[c] = "record" /\ pc[c] = "check"
          /\ UNCHANGED <<ledger, erased, kills>>
      BY <1>4, <2>2 DEF Check, history, SetJob, Goto, PoolTypeOK, JobType
    <3> QED
      BY <3>1 DEF EarnedInv, SelectionEarned, EscalationEarned, P40Recorded, Earned, EarnedIn
  <2> QED
    BY <1>4, <2>1, <2>2 DEF Check
<1> QED
  BY <1>2, <1>3, <1>4 DEF Caller

\* For one caller, and any number of processes that report failures, credit and
\* observations meanwhile: no work is recorded for a model that costs money
\* before the failures that justify it were in the ledger.
THEOREM EscalationsAreEarned ==
  ASSUME \A c, d \in Callers : c = d
  PROVE  Spec => []EscalationEarned
<1>1. Init => EarnedInv
  BY DEF Init, EarnedInv, SelectionEarned, EscalationEarned
<1>2. PoolTypeOK /\ FailuresAccounted /\ EarnedInv /\ [Next]_vars => EarnedInv'
  <2> SUFFICES ASSUME PoolTypeOK, FailuresAccounted, EarnedInv, [Next]_vars PROVE EarnedInv'
    OBVIOUS
  <2>1. CASE UNCHANGED vars
    BY <2>1 DEF vars, history, EarnedInv, SelectionEarned, EscalationEarned, P40Recorded, Earned, EarnedIn
  <2>2. CASE Pool
    BY <2>2, TransactionTyped, NothingSelected DEF Next
  <2>3. ASSUME NEW c \in Callers, Caller(c) PROVE EarnedInv'
    BY <2>3, CallerEarned
  <2> QED
    BY <2>1, <2>2, <2>3 DEF Next
<1>3. EarnedInv => EscalationEarned
  BY DEF EarnedInv
<1> QED
  BY <1>1, <1>2, <1>3, PoolTypeCorrect, FilesAgree, PTL DEF Spec
=============================================================================

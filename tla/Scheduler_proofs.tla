-------------------------- MODULE Scheduler_proofs ---------------------------
(***************************************************************************)
(* Proofs about the scheduler's store, for every set of tasks, workers and *)
(* exclusive resources and for every caller of its transactions.           *)
(***************************************************************************)
EXTENDS Scheduler, TLAPS

\* A transaction keeps every row well typed.
LEMMA StoreStepTyped == DBTypeOK /\ [StoreNext]_dbVars => DBTypeOK'
<1> SUFFICES ASSUME DBTypeOK, [StoreNext]_dbVars
             PROVE  DBTypeOK'
  OBVIOUS
<1> USE SchedulerAssumption DEF DBTypeOK, TaskStates
<1>1. ASSUME NEW t \in Tasks, ClaimTask(t) \/ CancelTask(t) \/ CloseAttempt(t)
      PROVE  DBTypeOK'
  BY <1>1 DEF ClaimTask, CancelTask, CloseAttempt, WriteState
<1>2. ASSUME NEW t \in Tasks, NEW w \in Workers, StartTask(t, w)
      PROVE  DBTypeOK'
  BY <1>2 DEF StartTask
<1>3. ASSUME NEW t \in Tasks, NEW s \in WrittenStates, WriteState(t, s)
      PROVE  DBTypeOK'
  BY <1>3 DEF WriteState, WrittenStates
<1>4. CASE \/ RecordP40ReadyIfNeeded
          \/ \E v \in {"on", "off"} : SetSchedule(v) \/ SetPlanning(v)
          \/ UNCHANGED dbVars
  BY <1>4 DEF RecordP40ReadyIfNeeded, SetSchedule, SetPlanning, dbVars
<1> QED
  BY <1>1, <1>2, <1>3, <1>4 DEF StoreNext

\* The rows and the controls are well typed when the tables are created.
LEMMA DBInitTyped == DBInit => DBTypeOK
<1> SUFFICES ASSUME DBInit PROVE DBTypeOK
  OBVIOUS
<1>1. state \in [Tasks -> TaskStates \cup {"absent"}]
  BY DEF DBInit
<1>2. openOn \in [Tasks -> Workers \cup {NoWorker}]
  BY DEF DBInit
<1>3. used \in [Tasks -> SUBSET Workers]
  BY DEF DBInit
<1>4. schedule \in {"on", "off"} /\ planning \in {"on", "off"} /\ readyLogged \in BOOLEAN
  BY DEF DBInit
<1> QED
  BY <1>1, <1>2, <1>3, <1>4 DEF DBTypeOK

\* The rows and controls keep their types (the CREATE TABLEs of _init_db).
THEOREM StoreTypeCorrect == StoreSpec => []DBTypeOK
<1>1. DBInit => DBTypeOK
  BY DBInitTyped
<1> QED
  BY <1>1, StoreStepTyped, PTL DEF StoreSpec

-----------------------------------------------------------------------------
(***************************************************************************)
(* The inductive invariant of exclusion: start_task counts every attempt   *)
(* of a running task, so it is enough that the open one is among them.     *)
(***************************************************************************)
ExclusionInv == DBTypeOK /\ AttemptsRecorded /\ ResourceExclusion

\* Initially nothing runs.
LEMMA ExclusionInvInit == DBInit => ExclusionInv
  BY SchedulerAssumption
  DEF DBInit, ExclusionInv, DBTypeOK, TaskStates, AttemptsRecorded, OpenWorkers,
      ResourceExclusion, Holds, HeldBy

\* A step that starts nothing and opens no attempt creates no holder.
LEMMA NoNewHolder ==
  ASSUME ExclusionInv,
         UNCHANGED used,
         \A t \in Tasks : state'[t] = "running" => state[t] = "running",
         \A t \in Tasks : openOn'[t] \in {openOn[t], NoWorker}
  PROVE  AttemptsRecorded' /\ ResourceExclusion'
  BY SchedulerAssumption
  DEF ExclusionInv, AttemptsRecorded, OpenWorkers, ResourceExclusion, Holds, HeldBy

\* A start is refused while another running task ever used the resource.
LEMMA StartKeepsExclusion ==
  ASSUME ExclusionInv, NEW t \in Tasks, NEW w \in Workers, StartTask(t, w)
  PROVE  AttemptsRecorded' /\ ResourceExclusion'
<1> USE SchedulerAssumption
<1>1. /\ state' = [state EXCEPT ![t] = "running"]
      /\ openOn' = [openOn EXCEPT ![t] = w]
      /\ used' = [used EXCEPT ![t] = @ \cup {w}]
  BY DEF StartTask
<1>2. /\ state \in [Tasks -> TaskStates \cup {"absent"}]
      /\ openOn \in [Tasks -> Workers \cup {NoWorker}]
      /\ used \in [Tasks -> SUBSET Workers]
  BY DEF ExclusionInv, DBTypeOK
<1>3. AttemptsRecorded'
  BY <1>1, <1>2 DEF ExclusionInv, AttemptsRecorded, OpenWorkers
<1>4. ASSUME NEW r \in Resources, NEW u \in Tasks, u # t, Holds(t, r)', Holds(u, r)'
      PROVE  FALSE
  <2>1. ResourceOf[w] = r
    BY <1>1, <1>2, <1>4 DEF Holds, HeldBy, OpenWorkers
  <2>2. Holds(u, r)
    BY <1>1, <1>2, <1>4 DEF Holds, HeldBy, OpenWorkers
  <2>3. state[u] = "running" /\ HeldBy(used[u], r)
    BY <2>2, <1>2 DEF ExclusionInv, AttemptsRecorded, Holds, HeldBy
  <2>4. Conflicts(w)
    BY <2>1, <2>3 DEF Conflicts
  <2> QED
    BY <2>4 DEF StartTask, StartAllowed
<1>5. ASSUME NEW r \in Resources, NEW u1 \in Tasks, NEW u2 \in Tasks,
             Holds(u1, r)', Holds(u2, r)'
      PROVE  u1 = u2
  <2>1. CASE u1 # t /\ u2 # t
    <3>1. Holds(u1, r) /\ Holds(u2, r)
      BY <2>1, <1>1, <1>2, <1>5 DEF Holds, HeldBy, OpenWorkers
    <3> QED
      BY <3>1 DEF ExclusionInv, ResourceExclusion
  <2> QED
    BY <2>1, <1>4, <1>5
<1> QED
  BY <1>3, <1>5 DEF ResourceExclusion

(***************************************************************************)
(* Two running tasks never hold an exclusive resource together, whoever    *)
(* calls the scheduler and however stale their other writes are.           *)
(***************************************************************************)
THEOREM StoreExclusion == StoreSpec => []ResourceExclusion
<1>1. DBInit => ExclusionInv
  BY ExclusionInvInit
<1>2. ExclusionInv /\ DBTypeOK' /\ [StoreNext]_dbVars => ExclusionInv'
  <2> SUFFICES ASSUME ExclusionInv, DBTypeOK', [StoreNext]_dbVars
               PROVE  AttemptsRecorded' /\ ResourceExclusion'
    BY DEF ExclusionInv
  <2>0. state \in [Tasks -> TaskStates \cup {"absent"}]
        /\ openOn \in [Tasks -> Workers \cup {NoWorker}]
    BY DEF ExclusionInv, DBTypeOK
  <2>1. ASSUME NEW t \in Tasks, NEW s, s # "running", WriteState(t, s)
        PROVE  AttemptsRecorded' /\ ResourceExclusion'
    BY <2>0, <2>1, NoNewHolder DEF WriteState
  <2>2. ASSUME NEW t \in Tasks, ClaimTask(t) \/ CancelTask(t)
        PROVE  AttemptsRecorded' /\ ResourceExclusion'
    BY <2>1, <2>2 DEF ClaimTask, CancelTask
  <2>3. ASSUME NEW t \in Tasks, CloseAttempt(t)
        PROVE  AttemptsRecorded' /\ ResourceExclusion'
    BY <2>0, <2>3, NoNewHolder DEF CloseAttempt
  <2>4. ASSUME NEW t \in Tasks, NEW w \in Workers, StartTask(t, w)
        PROVE  AttemptsRecorded' /\ ResourceExclusion'
    BY <2>4, StartKeepsExclusion
  <2>5. ASSUME NEW t \in Tasks, NEW s \in WrittenStates, WriteState(t, s)
        PROVE  AttemptsRecorded' /\ ResourceExclusion'
    <3>1. s # "running"
      BY DEF WrittenStates
    <3> QED
      BY <3>1, <2>1, <2>5
  <2>6. CASE UNCHANGED <<state, openOn, used>>
    BY <2>6, <2>0, NoNewHolder
  <2> QED
    BY <2>2, <2>3, <2>4, <2>5, <2>6
    DEF StoreNext, dbVars, RecordP40ReadyIfNeeded, SetSchedule, SetPlanning
<1>3. ExclusionInv => ResourceExclusion
  BY DEF ExclusionInv
<1> QED
  BY <1>1, <1>2, <1>3, StoreTypeCorrect, PTL DEF StoreSpec

-----------------------------------------------------------------------------
\* A step that claims nothing, starts nothing and opens no attempt does not
\* make a free P40 busy.
LEMMA StaysFree ==
  ASSUME \A t \in Tasks : state'[t] \in {"claimed", "running"} => state'[t] = state[t],
         \A t \in Tasks : openOn'[t] \in {openOn[t], NoWorker}
  PROVE  P40Busy' => P40Busy
  BY SchedulerAssumption DEF P40Busy, Holds, HeldBy, OpenWorkers

(***************************************************************************)
(* After p40_ready has been recorded, planning mode keeps the P40 free:    *)
(* claim_task and start_task both look at the control under the lock that  *)
(* makes their own transition.                                             *)
(***************************************************************************)
THEOREM StoreReadiness == StoreSpec => []ReadyMeansFree
<1>1. DBInit => ReadyMeansFree
  BY DEF DBInit, ReadyMeansFree
<1>2. DBTypeOK /\ ReadyMeansFree /\ [StoreNext]_dbVars => ReadyMeansFree'
  <2> SUFFICES ASSUME DBTypeOK, ReadyMeansFree, [StoreNext]_dbVars,
                      planning' = "on", readyLogged', P40Busy'
               PROVE  FALSE
    BY DEF ReadyMeansFree
  <2> USE SchedulerAssumption
  <2>0. /\ state \in [Tasks -> TaskStates \cup {"absent"}]
        /\ openOn \in [Tasks -> Workers \cup {NoWorker}]
    BY DEF DBTypeOK
  <2>1. ASSUME NEW t \in Tasks, NEW s \in WrittenStates \cup {"cancelled"},
               WriteState(t, s)
        PROVE  FALSE
    <3>1. s \notin {"claimed", "running"}
      BY DEF WrittenStates
    <3>2. P40Busy' => P40Busy
      BY <2>0, <2>1, <3>1, StaysFree DEF WriteState
    <3> QED
      BY <2>1, <3>2 DEF WriteState, ReadyMeansFree
  <2>2. ASSUME NEW t \in Tasks, ClaimTask(t)
        PROVE  FALSE
    <3>1. /\ t \notin P40Tasks
          /\ ~P40Busy
          /\ state' = [state EXCEPT ![t] = "claimed"]
          /\ openOn' = openOn
      BY <2>2 DEF ClaimTask, WriteState, ReadyMeansFree
    <3>2. ~P40Busy'
      BY <3>1, <2>0 DEF P40Busy, Holds, HeldBy, OpenWorkers
    <3> QED
      BY <3>2
  <2>3. ASSUME NEW t \in Tasks, CancelTask(t)
        PROVE  FALSE
    BY <2>1, <2>3 DEF CancelTask
  <2>4. ASSUME NEW t \in Tasks, CloseAttempt(t)
        PROVE  FALSE
    <3>1. P40Busy' => P40Busy
      BY <2>0, <2>4, StaysFree DEF CloseAttempt
    <3> QED
      BY <2>4, <3>1 DEF CloseAttempt, ReadyMeansFree
  <2>5. ASSUME NEW t \in Tasks, NEW w \in Workers, StartTask(t, w)
        PROVE  FALSE
    <3>1. /\ ResourceOf[w] # P40
          /\ ~P40Busy
          /\ state' = [state EXCEPT ![t] = "running"]
          /\ openOn' = [openOn EXCEPT ![t] = w]
      BY <2>5 DEF StartTask, StartAllowed, ReadyMeansFree
    <3>2. ~P40Busy'
      BY <3>1, <2>0 DEF P40Busy, Holds, HeldBy, OpenWorkers
    <3> QED
      BY <3>2
  <2>6. CASE RecordP40ReadyIfNeeded
    <3>1. P40Busy
      BY <2>6 DEF RecordP40ReadyIfNeeded, P40Busy, Holds, HeldBy, OpenWorkers
    <3> QED
      BY <2>6, <3>1 DEF RecordP40ReadyIfNeeded, ReadyMeansFree
  <2>7. ASSUME NEW v \in {"on", "off"}, SetSchedule(v) \/ SetPlanning(v)
        PROVE  FALSE
    <3>1. P40Busy
      BY <2>7 DEF SetSchedule, SetPlanning, P40Busy, Holds, HeldBy, OpenWorkers
    <3> QED
      BY <2>7, <3>1 DEF SetSchedule, SetPlanning, ReadyMeansFree
  <2>8. CASE UNCHANGED dbVars
    BY <2>8 DEF dbVars, ReadyMeansFree, P40Busy, Holds, HeldBy, OpenWorkers
  <2> QED
    BY <2>1, <2>2, <2>3, <2>4, <2>5, <2>6, <2>7, <2>8 DEF StoreNext
<1> QED
  BY <1>1, <1>2, StoreTypeCorrect, PTL DEF StoreSpec
=============================================================================

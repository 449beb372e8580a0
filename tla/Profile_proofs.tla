---------------------------- MODULE Profile_proofs -----------------------------
(***************************************************************************)
(* Proofs about the lease of the P40, for every set of daemons, every      *)
(* assignment of kinds to them and every bound.                            *)
(*                                                                         *)
(* A daemon holds the lease from the look at the service to the end of its *)
(* handler, and a wrapper runs only for who holds it, or abandoned; so     *)
(* while a handler runs nobody changes the model it was given.             *)
(***************************************************************************)
EXTENDS Profile, TLAPS

Held == {"look", "probe", "switch", "wait", "verify"}
OnP40(d) == pc[d] = "run" /\ profile[d] # "none"

\* Where the lease is held, and for which profiles.
LeaseHeld ==
  \A d \in Daemons :
    /\ pc[d] \in Held \/ OnP40(d) => lease = d
    /\ pc[d] \in Held \cup {"lease"} => profile[d] # "none"

\* A wrapper nobody waits for was abandoned.
StraysCounted == \A w \in switches : w.by = Nobody => abandoned > 0

\* What was verified before the handler was called is still loaded.
RunLoaded == \A d \in Daemons : OnP40(d) /\ abandoned = 0 => p40.loaded = profile[d]

\* A verdict of the handler comes with what that run left in last_result.
VerdictOwn ==
  \A d \in Daemons :
    pc[d] = "record" /\ result[d] \in {"success", "failed", "awaiting_review"}
      => last[d][kind[d]] # "stale"

LeaseInv == ProfileTypeOK /\ LeaseHeld /\ StraysCounted /\ RunLoaded
ResultInv == VerdictOwn /\ FinalResultsAreOwn

-----------------------------------------------------------------------------
(* The lease. *)

LEMMA LeaseInit == Init => LeaseInv
  BY ProfileAssumption
  DEF Init, LeaseInv, ProfileTypeOK, LeaseHeld, StraysCounted, RunLoaded, OnP40, Held,
      Handlers, P40Profiles, PCs, Evidence, Results, Unclosed

\* While a handler is on the P40, only abandoned wrappers run.
LEMMA QuietWhileRunning ==
  ASSUME LeaseInv, NEW d \in Daemons, OnP40(d), abandoned = 0
  PROVE  switches = {}
<1>1. SUFFICES ASSUME NEW w \in switches PROVE FALSE
  OBVIOUS
<1>2. w.by # Nobody /\ w.by \in Daemons
  BY <1>1 DEF LeaseInv, StraysCounted, ProfileTypeOK
<1>3. pc[w.by] = "wait"
  BY <1>1, <1>2 DEF LeaseInv, ProfileTypeOK
<1>4. lease = w.by /\ lease = d
  BY <1>2, <1>3 DEF LeaseInv, LeaseHeld, Held
<1> QED
  BY <1>3, <1>4 DEF OnP40

LEMMA ServiceKeeps == ASSUME LeaseInv, Service PROVE LeaseInv'
  BY DEF Service, LeaseInv, ProfileTypeOK, LeaseHeld, StraysCounted, RunLoaded, OnP40

LEMMA AdvanceKeeps ==
  ASSUME LeaseInv, NEW w \in switches, Advance(w)
  PROVE  LeaseInv'
<1> USE DEF LeaseInv
<1> DEFINE W == [by : Daemons \cup {Nobody}, profile : P40Profiles,
                 stage : {"begun", "stopped", "exited"}]
           On(s) == [w EXCEPT !.stage = s]
<1>1. w \in W
  BY DEF ProfileTypeOK
<1>2. ASSUME NEW s \in {"stopped", "exited"}
      PROVE  On(s) \in W /\ On(s).by = w.by /\ On(s).profile = w.profile
  BY <1>1
<1>3. switches' \subseteq switches \cup {On("stopped"), On("exited")}
  BY DEF Advance, Exited
<1> HIDE DEF On, W
<1>4. \A v \in switches' :
        v \in W /\ \E u \in switches : v.by = u.by /\ v.profile = u.profile
  <2> SUFFICES ASSUME NEW v \in switches'
               PROVE  v \in W /\ \E u \in switches : v.by = u.by /\ v.profile = u.profile
    OBVIOUS
  <2>1. CASE v \in switches
    BY <2>1 DEF ProfileTypeOK, W
  <2>2. ASSUME NEW s \in {"stopped", "exited"}, v = On(s)
        PROVE  v \in W /\ v.by = w.by /\ v.profile = w.profile
    BY <1>2, <2>2
  <2>3. v \in switches \/ v = On("stopped") \/ v = On("exited")
    BY <1>3
  <2>4. w \in switches
    OBVIOUS
  <2> QED
    BY <2>1, <2>2, <2>3, <2>4
<1>5. UNCHANGED <<known, lease, abandoned, pc, round, kind, profile, last, result, closed>>
  BY DEF Advance
<1>6. p40' \in [loaded : P40Profiles \cup {"none"}, works : BOOLEAN]
  <2>1. w.profile \in P40Profiles
    BY <1>1 DEF W
  <2>2. \/ p40' = [loaded |-> "none", works |-> FALSE]
        \/ UNCHANGED p40
        \/ p40' \in [loaded : {w.profile, "coding", "none"}, works : BOOLEAN]
    BY DEF Advance
  <2>3. ASSUME NEW f \in P40Profiles \cup {"none"}, NEW b \in BOOLEAN
        PROVE  [loaded |-> f, works |-> b] \in [loaded : P40Profiles \cup {"none"}, works : BOOLEAN]
    OBVIOUS
  <2>4. CASE p40' = [loaded |-> "none", works |-> FALSE]
    BY <2>3, <2>4
  <2>5. CASE UNCHANGED p40
    BY <2>5 DEF ProfileTypeOK
  <2>6. CASE p40' \in [loaded : {w.profile, "coding", "none"}, works : BOOLEAN]
    <3>1. {w.profile, "coding", "none"} \subseteq P40Profiles \cup {"none"}
      BY <2>1 DEF P40Profiles
    <3> QED
      BY <2>6, <3>1
  <2> QED
    BY <2>2, <2>4, <2>5, <2>6
<1>7. ProfileTypeOK'
  <2>1. switches' \subseteq W
    BY <1>4
  <2>2. \A v \in switches' : v.by # Nobody => pc[v.by] = "wait" /\ profile[v.by] = v.profile
    BY <1>4 DEF ProfileTypeOK
  <2> QED
    BY <1>5, <1>6, <2>1, <2>2 DEF ProfileTypeOK, W
<1>8. LeaseHeld'
  BY <1>5 DEF LeaseHeld, OnP40
<1>9. StraysCounted'
  BY <1>4, <1>5 DEF StraysCounted
<1>10. RunLoaded'
  <2>1. \A d \in Daemons : ~(OnP40(d) /\ abandoned = 0)
    BY QuietWhileRunning
  <2> QED
    BY <1>5, <2>1 DEF RunLoaded, OnP40
<1> QED
  BY <1>7, <1>8, <1>9, <1>10

\* What every step of the boundary has in common: d goes on, the others stay.
LEMMA FailureKeeps ==
  ASSUME LeaseInv, NEW d \in Daemons, Failed(d), pc[d] \in Held \cup {"lease"},
         UNCHANGED <<known, p40, kind, profile, last, closed>>,
         abandoned' \in 0 .. MaxAbandoned, abandoned' >= abandoned,
         switches' \subseteq [by : Daemons \cup {Nobody}, profile : P40Profiles,
                              stage : {"begun", "stopped", "exited"}],
         \A w \in switches' : w.by # Nobody => w \in switches /\ w.by # d,
         \A w \in switches' : w.by = Nobody => abandoned' > 0
  PROVE  LeaseInv'
<1> USE DEF LeaseInv
<1>1. ProfileTypeOK'
  <2>1. lease' \in Daemons \cup {Nobody} /\ pc' \in [Daemons -> PCs]
    BY DEF ProfileTypeOK, Failed, Release, Goto, PCs
  <2>4. /\ round' \in [Daemons -> {"first", "ensure", "again"}]
        /\ result' \in [Daemons -> Results]
    BY DEF ProfileTypeOK, Failed, Results
  <2>2. \A e \in Daemons : e # d => pc'[e] = pc[e]
    BY DEF ProfileTypeOK, Failed, Goto
  <2>3. \A w \in switches' : w.by # Nobody => pc'[w.by] = "wait" /\ profile'[w.by] = w.profile
    BY <2>2 DEF ProfileTypeOK
  <2> QED
    BY <2>1, <2>3, <2>4 DEF ProfileTypeOK
<1>2. LeaseHeld'
  BY DEF LeaseHeld, ProfileTypeOK, Failed, Release, Goto, Held, OnP40, PCs
<1>3. StraysCounted'
  BY DEF StraysCounted
<1>4. RunLoaded'
  BY DEF RunLoaded, ProfileTypeOK, Failed, Goto, OnP40, Held
<1> QED
  BY <1>1, <1>2, <1>3, <1>4

LEMMA UnknownKeeps ==
  ASSUME LeaseInv, NEW d \in Daemons, Unknown(d)
  PROVE  LeaseInv'
<1>1. Failed(d) /\ pc[d] \in Held \cup {"lease"}
  BY DEF Unknown, Held
<1>2. UNCHANGED <<known, p40, switches, abandoned, kind, profile, last, closed>>
  BY DEF Unknown
<1>3. pc[d] # "wait"
  BY DEF Unknown
<1> QED
  BY <1>1, <1>2, <1>3, FailureKeeps DEF LeaseInv, ProfileTypeOK, StraysCounted

LEMMA AcquireKeeps ==
  ASSUME LeaseInv, NEW d \in Daemons, Acquire(d)
  PROVE  LeaseInv'
<1> USE DEF LeaseInv, Acquire, Goto
<1>1. ProfileTypeOK'
  BY DEF ProfileTypeOK, PCs
<1>2. LeaseHeld'
  BY ProfileAssumption DEF LeaseHeld, ProfileTypeOK, OnP40, Held
<1>3. StraysCounted'
  BY DEF StraysCounted
<1>4. RunLoaded'
  BY DEF RunLoaded, ProfileTypeOK, OnP40
<1> QED
  BY <1>1, <1>2, <1>3, <1>4

LEMMA LookKeeps ==
  ASSUME LeaseInv, NEW d \in Daemons, Look(d)
  PROVE  LeaseInv'
<1> USE DEF LeaseInv, Look, Goto, machine
<1>1. ProfileTypeOK'
  BY DEF ProfileTypeOK, PCs
<1>2. LeaseHeld'
  BY DEF LeaseHeld, ProfileTypeOK, OnP40, Held
<1>3. StraysCounted'
  BY DEF StraysCounted
<1>4. RunLoaded'
  BY DEF RunLoaded, ProfileTypeOK, OnP40
<1> QED
  BY <1>1, <1>2, <1>3, <1>4

\* The handler is called with the profile verified, or the lease given back.
LEMMA EnsuredKeeps ==
  ASSUME LeaseInv, NEW d \in Daemons, pc[d] \in {"probe", "verify"}, Verified(d), Ensured(d),
         UNCHANGED <<known, p40, switches, abandoned, kind, profile, last, closed, result>>
  PROVE  LeaseInv'
<1> USE DEF LeaseInv, Ensured, Goto, Release
<1>1. ProfileTypeOK'
  BY DEF ProfileTypeOK, PCs
<1>2. LeaseHeld'
  BY DEF LeaseHeld, ProfileTypeOK, OnP40, Held
<1>3. StraysCounted'
  BY DEF StraysCounted
<1>4. RunLoaded'
  BY DEF RunLoaded, ProfileTypeOK, OnP40, Verified
<1> QED
  BY <1>1, <1>2, <1>3, <1>4

LEMMA ProbeKeeps ==
  ASSUME LeaseInv, NEW d \in Daemons, Probe(d)
  PROVE  LeaseInv'
<1>1. CASE Verified(d)
  BY <1>1, EnsuredKeeps DEF Probe
<1>2. CASE ~Verified(d)
  <2> USE <1>2 DEF LeaseInv, Probe, Goto
  <2>1. ProfileTypeOK'
    BY DEF ProfileTypeOK, PCs
  <2>2. LeaseHeld'
    BY DEF LeaseHeld, ProfileTypeOK, OnP40, Held
  <2>3. StraysCounted'
    BY DEF StraysCounted
  <2>4. RunLoaded'
    BY DEF RunLoaded, ProfileTypeOK, OnP40
  <2> QED
    BY <2>1, <2>2, <2>3, <2>4
<1> QED
  BY <1>1, <1>2

LEMMA RaiseKeeps ==
  ASSUME LeaseInv, NEW d \in Daemons, Raise(d)
  PROVE  LeaseInv'
<1> USE DEF LeaseInv, Raise, Goto, Release
<1>1. ProfileTypeOK'
  BY DEF ProfileTypeOK, PCs, Results
<1>2. LeaseHeld'
  BY DEF LeaseHeld, ProfileTypeOK, OnP40, Held
<1>3. StraysCounted'
  BY DEF StraysCounted
<1>4. RunLoaded'
  BY DEF RunLoaded, ProfileTypeOK, OnP40
<1> QED
  BY <1>1, <1>2, <1>3, <1>4

\* A wrapper is started by who holds the lease.
LEMMA SwitchKeeps ==
  ASSUME LeaseInv, NEW d \in Daemons, Switch(d)
  PROVE  LeaseInv'
<1> USE DEF LeaseInv, Switch, Goto
<1> DEFINE w == [by |-> d, profile |-> profile[d], stage |-> "begun"]
<1>1. profile[d] \in P40Profiles
  BY DEF LeaseHeld, Held, ProfileTypeOK
<1>2. w.by = d /\ w.profile = profile[d] /\ d # Nobody
  BY ProfileAssumption
<1>3. w \in [by : Daemons \cup {Nobody}, profile : P40Profiles,
             stage : {"begun", "stopped", "exited"}]
  BY <1>1
<1>4. switches' = switches \cup {w}
  OBVIOUS
<1> HIDE DEF w
<1>5. ProfileTypeOK'
  <2>1. \A v \in switches' : v.by # Nobody => pc'[v.by] = "wait" /\ profile'[v.by] = v.profile
    BY <1>2, <1>4 DEF ProfileTypeOK
  <2> QED
    BY <1>3, <1>4, <2>1 DEF ProfileTypeOK, PCs
<1>6. LeaseHeld'
  BY DEF LeaseHeld, ProfileTypeOK, OnP40, Held
<1>7. StraysCounted'
  BY <1>2, <1>4 DEF StraysCounted
<1>8. RunLoaded'
  BY DEF RunLoaded, ProfileTypeOK, OnP40
<1> QED
  BY <1>5, <1>6, <1>7, <1>8

LEMMA SwitchMissingKeeps ==
  ASSUME LeaseInv, NEW d \in Daemons, SwitchMissing(d)
  PROVE  LeaseInv'
<1>1. Failed(d) /\ pc[d] = "switch"
  BY DEF SwitchMissing
<1>2. UNCHANGED <<known, p40, switches, abandoned, kind, profile, last, closed>>
  BY DEF SwitchMissing
<1> QED
  BY <1>1, <1>2, FailureKeeps DEF LeaseInv, ProfileTypeOK, StraysCounted, Held

LEMMA SwitchedKeepsInv ==
  ASSUME LeaseInv, NEW d \in Daemons, Switched(d)
  PROVE  LeaseInv'
<1>1. UNCHANGED <<known, p40, abandoned, kind, profile, last, closed>> /\ pc[d] = "wait"
  BY DEF Switched
<1>2. switches' = {w \in switches : w.by # d}
  BY DEF Switched, Of
<1>3. CASE Failed(d)
  BY <1>1, <1>2, <1>3, FailureKeeps DEF LeaseInv, ProfileTypeOK, StraysCounted, Held
<1>4. CASE Goto(d, "verify") /\ UNCHANGED <<lease, round, result>>
  <2> USE <1>1, <1>2, <1>4 DEF LeaseInv, Goto
  <2>1. ProfileTypeOK'
    BY DEF ProfileTypeOK, PCs
  <2>2. LeaseHeld'
    BY DEF LeaseHeld, ProfileTypeOK, OnP40, Held
  <2>3. StraysCounted'
    BY DEF StraysCounted
  <2>4. RunLoaded'
    BY DEF RunLoaded, ProfileTypeOK, OnP40
  <2> QED
    BY <2>1, <2>2, <2>3, <2>4
<1> QED
  BY <1>3, <1>4 DEF Switched

\* What abandoning a wrapper does to the wrappers.
LEMMA Abandoned ==
  ASSUME LeaseInv, NEW d \in Daemons, Abandon(d)
  PROVE  /\ abandoned' \in 0 .. MaxAbandoned /\ abandoned' >= abandoned
         /\ switches' \subseteq [by : Daemons \cup {Nobody}, profile : P40Profiles,
                                 stage : {"begun", "stopped", "exited"}]
         /\ \A w \in switches' : w.by # Nobody => w \in switches /\ w.by # d
         /\ \A w \in switches' : w.by = Nobody => abandoned' > 0
<1> DEFINE W == [by : Daemons \cup {Nobody}, profile : P40Profiles,
                 stage : {"begun", "stopped", "exited"}]
           left == {w \in Of(d) : w.stage # "exited"}
           Free(w) == [w EXCEPT !.by = Nobody]
<1>1. switches \subseteq W /\ abandoned \in 0 .. MaxAbandoned
  BY DEF LeaseInv, ProfileTypeOK
<1>2. \A w \in W : Free(w) \in W /\ Free(w).by = Nobody
  OBVIOUS
<1>3. /\ abandoned' = abandoned + IF left = {} THEN 0 ELSE 1
      /\ abandoned' <= MaxAbandoned
      /\ switches' = (switches \ Of(d)) \cup {Free(w) : w \in left}
  BY DEF Abandon
<1>4. left \subseteq Of(d) /\ Of(d) = {w \in switches : w.by = d}
  BY DEF Of
<1> HIDE DEF left, Free, W
<1>5. abandoned' \in 0 .. MaxAbandoned /\ abandoned' >= abandoned
  BY <1>1, <1>3, ProfileAssumption
<1>6. switches' \subseteq W
  BY <1>1, <1>2, <1>3, <1>4
<1>7. \A w \in switches' : w.by # Nobody => w \in switches /\ w.by # d
  BY <1>1, <1>2, <1>3, <1>4
<1>8. \A w \in switches' : w.by = Nobody => abandoned' > 0
  <2> SUFFICES ASSUME NEW w \in switches', w.by = Nobody PROVE abandoned' > 0
    OBVIOUS
  <2>1. CASE w \in switches
    BY <1>1, <1>5, <2>1, ProfileAssumption DEF LeaseInv, StraysCounted
  <2>2. CASE w \notin switches
    <3>1. left # {}
      BY <1>3, <2>2
    <3> QED
      BY <1>1, <1>3, <3>1
  <2> QED
    BY <2>1, <2>2
<1> QED
  BY <1>5, <1>6, <1>7, <1>8 DEF W

LEMMA SwitchTimeoutKeeps ==
  ASSUME LeaseInv, NEW d \in Daemons, SwitchTimeout(d)
  PROVE  LeaseInv'
<1>1. Failed(d) /\ Abandon(d) /\ pc[d] = "wait"
  BY DEF SwitchTimeout
<1>2. UNCHANGED <<known, p40, kind, profile, last, closed>>
  BY DEF SwitchTimeout
<1> QED
  BY <1>1, <1>2, Abandoned, FailureKeeps DEF Held

LEMMA VerifyKeeps ==
  ASSUME LeaseInv, NEW d \in Daemons, Verify(d)
  PROVE  LeaseInv'
<1>1. UNCHANGED <<known, p40, switches, abandoned, kind, profile, last, closed>> /\ pc[d] = "verify"
  BY DEF Verify
<1>2. CASE Failed(d)
  BY <1>1, <1>2, FailureKeeps DEF LeaseInv, ProfileTypeOK, StraysCounted, Held
<1>3. CASE Verified(d) /\ Ensured(d) /\ UNCHANGED result
  BY <1>1, <1>3, EnsuredKeeps
<1> QED
  BY <1>2, <1>3 DEF Verify

LEMMA BeginKeeps ==
  ASSUME LeaseInv, NEW d \in Daemons, Begin(d)
  PROVE  LeaseInv'
<1> USE DEF LeaseInv, machine
<1>1. PICK k \in Kinds[d] :
        /\ kind' = [kind EXCEPT ![d] = k.handler]
        /\ profile' = [profile EXCEPT ![d] = k.profile]
        /\ Goto(d, IF k.profile = "none" THEN "run" ELSE "lease")
  BY DEF Begin
<1>2. k.handler \in Handlers /\ k.profile \in P40Profiles \cup {"none"}
  BY ProfileAssumption DEF TaskKinds
<1>3. pc[d] = "idle" /\ UNCHANGED <<machine, round, result>>
  BY DEF Begin
<1>4. ProfileTypeOK'
  <2>1. last' \in [Daemons -> [Handlers -> Evidence]]
    BY DEF Begin, ProfileTypeOK, Evidence
  <2>2. closed' \in [Daemons -> [result : Results, evidence : Evidence]]
    BY DEF Begin, ProfileTypeOK, Unclosed, Results, Evidence
  <2> QED
    BY <1>1, <1>2, <1>3, <2>1, <2>2 DEF ProfileTypeOK, Goto, PCs
<1>5. LeaseHeld'
  BY <1>1, <1>3 DEF LeaseHeld, ProfileTypeOK, Goto, OnP40, Held
<1>6. StraysCounted'
  BY <1>3 DEF StraysCounted
<1>7. RunLoaded'
  BY <1>1, <1>3 DEF RunLoaded, ProfileTypeOK, Goto, OnP40
<1> QED
  BY <1>4, <1>5, <1>6, <1>7

LEMMA ExecuteKeeps ==
  ASSUME LeaseInv, NEW d \in Daemons, Execute(d)
  PROVE  LeaseInv'
<1> USE DEF LeaseInv
<1>1. /\ pc[d] = "run" /\ pc' = [pc EXCEPT ![d] = "record"]
      /\ lease' = IF lease = d THEN Nobody ELSE lease
      /\ UNCHANGED <<known, p40, switches, abandoned, round, kind, profile, closed>>
  BY DEF Execute, Goto, Release
<1>2. ProfileTypeOK'
  <2>1. result' \in [Daemons -> Results]
    BY DEF Execute, ProfileTypeOK, Results
  <2>2. last' \in [Daemons -> [Handlers -> Evidence]]
    <3>1. kind[d] \in Handlers /\ last \in [Daemons -> [Handlers -> Evidence]]
      BY DEF ProfileTypeOK
    <3>2. PICK v \in Evidence : last' = [last EXCEPT ![d] = [last[d] EXCEPT ![kind[d]] = v]]
      BY DEF Execute, End, Evidence
    <3>3. [last[d] EXCEPT ![kind[d]] = v] \in [Handlers -> Evidence]
      BY <3>1
    <3> QED
      BY <3>1, <3>2, <3>3
  <2> QED
    BY <1>1, <2>1, <2>2 DEF ProfileTypeOK, PCs
<1>3. LeaseHeld'
  BY <1>1 DEF LeaseHeld, ProfileTypeOK, OnP40, Held
<1>4. StraysCounted'
  BY <1>1 DEF StraysCounted
<1>5. RunLoaded'
  BY <1>1 DEF RunLoaded, ProfileTypeOK, OnP40
<1> QED
  BY <1>2, <1>3, <1>4, <1>5

LEMMA RecordKeeps ==
  ASSUME LeaseInv, NEW d \in Daemons, Record(d)
  PROVE  LeaseInv'
<1> USE DEF LeaseInv, Record, Return, Goto, machine
<1>1. ProfileTypeOK'
  <2>1. [result |-> result[d], evidence |-> IF result[d] = "error" THEN "own" ELSE last[d][kind[d]]]
          \in [result : Results, evidence : Evidence]
    <3>1. result[d] \in Results /\ last[d][kind[d]] \in Evidence
      BY DEF ProfileTypeOK
    <3> QED
      BY <3>1 DEF Evidence
  <2>2. closed' \in [Daemons -> [result : Results, evidence : Evidence]]
    BY <2>1 DEF ProfileTypeOK
  <2> QED
    BY <2>2 DEF ProfileTypeOK, PCs, Results, Handlers
<1>2. LeaseHeld'
  BY DEF LeaseHeld, ProfileTypeOK, OnP40, Held
<1>3. StraysCounted'
  BY DEF StraysCounted
<1>4. RunLoaded'
  BY DEF RunLoaded, ProfileTypeOK, OnP40
<1> QED
  BY <1>1, <1>2, <1>3, <1>4

LEMMA KillKeeps ==
  ASSUME LeaseInv, NEW d \in Daemons, Kill(d)
  PROVE  LeaseInv'
<1> USE DEF LeaseInv
<1>1. /\ pc' = [pc EXCEPT ![d] = "idle"] /\ kind' = [kind EXCEPT ![d] = "review"]
      /\ profile' = [profile EXCEPT ![d] = "none"]
      /\ lease' = IF lease = d THEN Nobody ELSE lease
      /\ UNCHANGED <<known, p40>>
  BY DEF Kill, Return, Goto, Release
<1>2. ProfileTypeOK'
  <2>1. \A w \in switches' : w.by # Nobody => pc'[w.by] = "wait" /\ profile'[w.by] = w.profile
    BY <1>1, Abandoned DEF Kill, ProfileTypeOK
  <2>2. /\ round' \in [Daemons -> {"first", "ensure", "again"}]
        /\ result' \in [Daemons -> Results]
    BY DEF Kill, Return, ProfileTypeOK, Results
  <2>3. last' \in [Daemons -> [Handlers -> Evidence]]
    BY DEF Kill, ProfileTypeOK, Evidence
  <2>4. closed' \in [Daemons -> [result : Results, evidence : Evidence]]
    BY DEF Kill, ProfileTypeOK, Unclosed, Results, Evidence
  <2>5. /\ abandoned' \in 0 .. MaxAbandoned
        /\ switches' \subseteq [by : Daemons \cup {Nobody}, profile : P40Profiles,
                                stage : {"begun", "stopped", "exited"}]
    BY Abandoned DEF Kill
  <2> QED
    BY <1>1, <2>1, <2>2, <2>3, <2>4, <2>5 DEF ProfileTypeOK, PCs, Handlers
<1>3. LeaseHeld'
  BY <1>1 DEF LeaseHeld, ProfileTypeOK, OnP40, Held
<1>4. StraysCounted'
  BY Abandoned DEF Kill, StraysCounted
<1>5. RunLoaded'
  BY <1>1, Abandoned DEF Kill, RunLoaded, ProfileTypeOK, OnP40
<1> QED
  BY <1>2, <1>3, <1>4, <1>5

LEMMA LeaseStep == LeaseInv /\ [Next]_vars => LeaseInv'
<1> SUFFICES ASSUME LeaseInv, [Next]_vars PROVE LeaseInv'
  OBVIOUS
<1>1. CASE Service
  BY <1>1, ServiceKeeps
<1>2. ASSUME NEW w \in switches, Advance(w) PROVE LeaseInv'
  BY <1>2, AdvanceKeeps
<1>3. ASSUME NEW d \in Daemons, Begin(d) \/ Acquire(d) \/ Raise(d) \/ SwitchMissing(d) \/ Kill(d)
      PROVE  LeaseInv'
  BY <1>3, BeginKeeps, AcquireKeeps, RaiseKeeps, SwitchMissingKeeps, KillKeeps
<1>4. ASSUME NEW d \in Daemons, Steps(d) PROVE LeaseInv'
  BY <1>4, UnknownKeeps, LookKeeps, ProbeKeeps, SwitchKeeps, SwitchedKeepsInv,
     SwitchTimeoutKeeps, VerifyKeeps, ExecuteKeeps, RecordKeeps
  DEF Steps
<1>5. CASE UNCHANGED vars
  BY <1>5 DEF vars, LeaseInv, ProfileTypeOK, LeaseHeld, StraysCounted, RunLoaded, OnP40
<1> QED
  BY <1>1, <1>2, <1>3, <1>4, <1>5 DEF Next

\* No daemon takes a step its locals do not allow, and no wrapper runs for a
\* daemon that does not wait for it.
THEOREM ProfileTypeCorrect == Spec => []ProfileTypeOK
<1>1. LeaseInv => ProfileTypeOK
  BY DEF LeaseInv
<1> QED
  BY <1>1, LeaseInit, LeaseStep, PTL DEF Spec

\* With any number of daemons on the machine, a handler runs under the profile
\* it needs, and nobody switches meanwhile, as long as no wrapper was left
\* behind.
THEOREM HandlersRunUnderProfile == Spec => []RunsUnderProfile
<1>1. LeaseInv => RunsUnderProfile
  BY QuietWhileRunning DEF RunsUnderProfile, LeaseInv, RunLoaded, OnP40
<1> QED
  BY <1>1, LeaseInit, LeaseStep, PTL DEF Spec

-----------------------------------------------------------------------------
(* What an attempt is closed with. *)

LEMMA ResultInit == Init => ResultInv
  BY DEF Init, ResultInv, VerdictOwn, FinalResultsAreOwn, Unclosed

\* A step that runs no handler and closes no attempt: whoever gets to record
\* has no verdict of a handler.
LEMMA NoVerdict ==
  ASSUME ResultInv, UNCHANGED <<kind, profile, last, closed>>,
         \A d \in Daemons :
           pc'[d] = "record" => \/ pc[d] = "record" /\ result'[d] = result[d]
                                \/ result'[d] \in {"retry", "error"}
  PROVE  ResultInv'
  BY DEF ResultInv, VerdictOwn, FinalResultsAreOwn

LEMMA FailureHasNone ==
  ASSUME ProfileTypeOK, ResultInv, NEW d \in Daemons, Failed(d), UNCHANGED <<kind, profile, last, closed>>
  PROVE  ResultInv'
  BY NoVerdict DEF Failed, Goto, ProfileTypeOK

LEMMA BoundaryHasNone ==
  ASSUME ProfileTypeOK, ResultInv, NEW d \in Daemons,
         \/ Unknown(d) \/ Acquire(d) \/ Look(d) \/ Probe(d) \/ Raise(d) \/ Switch(d)
         \/ SwitchMissing(d) \/ Switched(d) \/ SwitchTimeout(d) \/ Verify(d)
  PROVE  ResultInv'
<1>1. CASE Failed(d) /\ UNCHANGED <<kind, profile, last, closed>>
  BY <1>1, FailureHasNone
<1>2. CASE Acquire(d) \/ Look(d) \/ Switch(d)
  BY <1>2, NoVerdict DEF Acquire, Look, Switch, Goto, ProfileTypeOK
<1>3. CASE Raise(d)
  BY <1>3, NoVerdict DEF Raise, Goto, ProfileTypeOK
<1>4. CASE Probe(d)
  BY <1>4, NoVerdict DEF Probe, Ensured, Goto, ProfileTypeOK
<1>5. CASE Switched(d) /\ ~Failed(d)
  BY <1>5, NoVerdict DEF Switched, Goto, ProfileTypeOK
<1>6. CASE Verify(d) /\ ~Failed(d)
  BY <1>6, NoVerdict DEF Verify, Ensured, Goto, ProfileTypeOK
<1> QED
  BY <1>1, <1>2, <1>3, <1>4, <1>5, <1>6
  DEF Unknown, SwitchMissing, Switched, SwitchTimeout, Verify

\* execute() clears last_result before anything else, so whatever it ends
\* with, nothing of an earlier run is left.
LEMMA ExecutedIsOwn ==
  ASSUME ProfileTypeOK, ResultInv, NEW d \in Daemons, Execute(d)
  PROVE  ResultInv'
<1>1. kind[d] \in Handlers /\ last \in [Daemons -> [Handlers -> Evidence]]
  BY DEF ProfileTypeOK
<1>2. PICK v \in {"own", "none"} : last' = [last EXCEPT ![d] = [last[d] EXCEPT ![kind[d]] = v]]
  BY DEF Execute, End
<1>3. last'[d][kind[d]] = v /\ \A e \in Daemons : e # d => last'[e] = last[e]
  BY <1>1, <1>2
<1>4. /\ UNCHANGED <<kind, closed>>
      /\ \A e \in Daemons : e # d => pc'[e] = pc[e] /\ result'[e] = result[e]
  BY DEF Execute, Goto, ProfileTypeOK
<1>5. VerdictOwn'
  BY <1>3, <1>4 DEF ResultInv, VerdictOwn
<1>6. FinalResultsAreOwn'
  BY <1>4 DEF ResultInv, FinalResultsAreOwn
<1> QED
  BY <1>5, <1>6 DEF ResultInv

LEMMA RecordedIsOwn ==
  ASSUME ProfileTypeOK, ResultInv, NEW d \in Daemons, Record(d)
  PROVE  ResultInv'
<1>1. /\ pc[d] = "record" /\ UNCHANGED last
      /\ closed'[d] = [result |-> result[d],
                       evidence |-> IF result[d] = "error" THEN "own" ELSE last[d][kind[d]]]
      /\ \A e \in Daemons : e # d => closed'[e] = closed[e]
  BY DEF Record, machine, ProfileTypeOK
<1>2. /\ pc'[d] = "idle"
      /\ \A e \in Daemons : e # d => pc'[e] = pc[e] /\ result'[e] = result[e] /\ kind'[e] = kind[e]
  BY DEF Record, Return, Goto, ProfileTypeOK
<1>3. VerdictOwn'
  BY <1>1, <1>2 DEF ResultInv, VerdictOwn
<1>4. FinalResultsAreOwn'
  BY <1>1 DEF ResultInv, VerdictOwn, FinalResultsAreOwn
<1> QED
  BY <1>3, <1>4 DEF ResultInv

\* A task begun or a process started anew: nothing is closed or to be recorded.
LEMMA FreshIsOwn ==
  ASSUME ProfileTypeOK, ResultInv, NEW d \in Daemons, Begin(d) \/ Kill(d)
  PROVE  ResultInv'
<1>1. /\ pc'[d] # "record"
      /\ closed'[d] = Unclosed
  BY DEF Begin, Kill, Return, Goto, ProfileTypeOK
<1>2. \A e \in Daemons :
        e # d => /\ pc'[e] = pc[e] /\ result'[e] = result[e] /\ kind'[e] = kind[e]
                 /\ last'[e] = last[e] /\ closed'[e] = closed[e]
  BY DEF Begin, Kill, Return, Goto, ProfileTypeOK
<1>3. VerdictOwn'
  BY <1>1, <1>2 DEF ResultInv, VerdictOwn
<1>4. FinalResultsAreOwn'
  BY <1>1, <1>2 DEF ResultInv, FinalResultsAreOwn, Unclosed
<1> QED
  BY <1>3, <1>4 DEF ResultInv

LEMMA ResultStep == ProfileTypeOK /\ ResultInv /\ [Next]_vars => ResultInv'
<1> SUFFICES ASSUME ProfileTypeOK, ResultInv, [Next]_vars PROVE ResultInv'
  OBVIOUS
<1>1. CASE Service \/ (\E w \in switches : Advance(w)) \/ UNCHANGED vars
  BY <1>1, NoVerdict DEF Service, Advance, vars
<1>2. ASSUME NEW d \in Daemons, Begin(d) \/ Kill(d) PROVE ResultInv'
  BY <1>2, FreshIsOwn
<1>3. ASSUME NEW d \in Daemons, Acquire(d) \/ Raise(d) \/ SwitchMissing(d) PROVE ResultInv'
  BY <1>3, BoundaryHasNone
<1>4. ASSUME NEW d \in Daemons, Steps(d) PROVE ResultInv'
  BY <1>4, BoundaryHasNone, ExecutedIsOwn, RecordedIsOwn DEF Steps
<1> QED
  BY <1>1, <1>2, <1>3, <1>4 DEF Next

\* Handlers outlive their tasks, and still no verdict is closed with the result
\* of another task: for any number of daemons and of tasks.
THEOREM VerdictsAreOwn == Spec => []FinalResultsAreOwn
<1>1. ResultInv => FinalResultsAreOwn
  BY DEF ResultInv
<1> QED
  BY <1>1, ResultInit, ResultStep, ProfileTypeCorrect, PTL DEF Spec
=============================================================================

-------------------------------- MODULE Profile --------------------------------
(***************************************************************************)
(* Running a task on the P40 under its model profile: the daemon's         *)
(* execution step with its remediation (gtx_broker/daemon.py), the lease   *)
(* and the switch of scheduler/model_profiles.py, and of the handlers      *)
(* (scheduler/handlers.py) how they end and what they leave in last_result.*)
(*                                                                         *)
(* The lease is a lock of the machine: the daemons share it, whatever      *)
(* their databases.  A switch is done by a wrapper under sudo, a process   *)
(* of its own; a daemon that stops waiting for it, or is killed, lets go   *)
(* of the lease while the wrapper goes on.                                 *)
(*                                                                         *)
(* A handler belongs to its process and outlives the tasks it is given.    *)
(* Of its last_result, what matters is whether there is one, and whether   *)
(* it comes from the run at hand.                                          *)
(***************************************************************************)
EXTENDS Naturals

CONSTANTS
  Daemons,
  Kinds,         \* [Daemons -> the kinds of task each is given]: see TaskKinds
  Nobody,
  MaxAbandoned   \* bound on the switches left running by their daemon

VARIABLES
  known,      \* the profiles that have a configuration file; it never changes
  p40,        \* the service: the profile it has loaded, and whether it works
  lease,      \* who holds the lock
  switches,   \* the wrappers that run: for whom, to which profile, how far
  abandoned,  \* the number of wrappers whose daemon went away
  pc, round,  \* the next step of a daemon, and of its three tries which one
  kind,       \* the kind of its task: the handler
  profile,    \* and the profile, or "none" for a task that is not on the P40
  last,       \* what each handler of a daemon has in last_result
  result,     \* the HandlerResult the daemon will act on
  closed      \* the last attempt it closed

vars == <<known, p40, lease, switches, abandoned, pc, round, kind, profile, last, result, closed>>
machine == <<known, p40, lease, switches, abandoned>>

P40Profiles == {"vision", "coding"}
Handlers == {"vision", "coding", "review"}

\* Which handler a task is given is decided by its kind, or by its being a
\* review; whether it runs on the P40, by its worker: slow-coder has the coding
\* handler and no profile, and a review that names a P40 worker has one.
TaskKinds == [handler : Handlers, profile : P40Profiles \cup {"none"}]

Evidence == {"none", "own", "stale"}
Results == {"success", "failed", "retry", "unavailable", "awaiting_review", "error"}
PCs == {"idle", "lease", "look", "probe", "switch", "wait", "verify", "run", "record"}

ASSUME ProfileAssumption ==
  /\ Kinds \in [Daemons -> SUBSET TaskKinds]
  /\ Nobody \notin Daemons
  /\ MaxAbandoned \in Nat

\* What is kept between two tasks: only what a handler has in last_result,
\* and, until the next task begins, how the last attempt was closed.
Unclosed == [result |-> "retry", evidence |-> "none"]

Init ==
  /\ known \in SUBSET P40Profiles
  /\ p40 \in [loaded : P40Profiles \cup {"none"}, works : BOOLEAN]
  /\ lease = Nobody
  /\ switches = {}
  /\ abandoned = 0
  /\ pc = [d \in Daemons |-> "idle"]
  /\ round = [d \in Daemons |-> "first"]
  /\ kind = [d \in Daemons |-> "review"]
  /\ profile = [d \in Daemons |-> "none"]
  /\ last = [d \in Daemons |-> [h \in Handlers |-> "none"]]
  /\ result = [d \in Daemons |-> "retry"]
  /\ closed = [d \in Daemons |-> Unclosed]

Goto(d, next) == pc' = [pc EXCEPT ![d] = next]

Return(d) ==
  /\ Goto(d, "idle")
  /\ round' = [round EXCEPT ![d] = "first"]
  /\ kind' = [kind EXCEPT ![d] = "review"]
  /\ profile' = [profile EXCEPT ![d] = "none"]
  /\ result' = [result EXCEPT ![d] = "retry"]

-----------------------------------------------------------------------------
(* The service and the wrappers. *)

\* It fails, or its supervisor restarts it.
Service ==
  /\ \E works \in BOOLEAN : p40' = [p40 EXCEPT !.works = works]
  /\ UNCHANGED <<known, lease, switches, abandoned, pc, round, kind, profile, last, result, closed>>

\* The wrapper has exited; if its daemon went away nobody will know.
Exited(w) == (switches \ {w}) \cup (IF w.by = Nobody THEN {} ELSE {[w EXCEPT !.stage = "exited"]})

\* A wrapper stops the service, starts it with the other model, and exits.  One
\* that cannot stop it leaves the old model; one that cannot start the other
\* leaves it not working, or no model, or goes back to the coding one.
Advance(w) ==
  /\ \/ /\ w.stage = "begun"
        /\ p40' = [loaded |-> "none", works |-> FALSE]
        /\ switches' = (switches \ {w}) \cup {[w EXCEPT !.stage = "stopped"]}
     \/ /\ w.stage = "begun"
        /\ switches' = Exited(w)
        /\ UNCHANGED p40
     \/ /\ w.stage = "stopped"
        /\ p40' \in [loaded : {w.profile, "coding", "none"}, works : BOOLEAN]
        /\ switches' = Exited(w)
  /\ UNCHANGED <<known, lease, abandoned, pc, round, kind, profile, last, result, closed>>

-----------------------------------------------------------------------------
(* The lease, and the profile under it. *)

Release(d) == lease' = IF lease = d THEN Nobody ELSE lease

FailedKeeps(d) ==   \* mutant: the lease is not given back
  /\ UNCHANGED lease
  /\ IF round[d] = "first"
     THEN /\ round' = [round EXCEPT ![d] = "ensure"]
          /\ Goto(d, "lease")
          /\ UNCHANGED result
     ELSE /\ result' = [result EXCEPT ![d] = "retry"]
          /\ Goto(d, "record")
          /\ UNCHANGED round

\* A boundary that could not be set up.  The lease is given back first; then
\* the daemon ensures the profile once more, and if that fails too, or the
\* boundary fails again after it, the task is retried.
Failed(d) ==
  /\ Release(d)
  /\ IF round[d] = "first"
     THEN /\ round' = [round EXCEPT ![d] = "ensure"]
          /\ Goto(d, "lease")
          /\ UNCHANGED result
     ELSE /\ result' = [result EXCEPT ![d] = "retry"]
          /\ Goto(d, "record")
          /\ UNCHANGED round

EnsuredOnly(d) ==   \* mutant: the lease is not held while the task runs
  /\ Release(d)
  /\ IF round[d] = "ensure"
     THEN round' = [round EXCEPT ![d] = "again"] /\ Goto(d, "lease")
     ELSE Goto(d, "run") /\ UNCHANGED round

\* The profile is loaded and verified.
Ensured(d) ==
  IF round[d] = "ensure"
  THEN /\ Release(d)
       /\ round' = [round EXCEPT ![d] = "again"]
       /\ Goto(d, "lease")
  ELSE /\ Goto(d, "run")
       /\ UNCHANGED <<lease, round>>

\* profile() refuses an unknown profile before it takes the lock, and
\* ensure_profile() after.
Unknown(d) ==
  /\ \/ pc[d] = "lease" /\ round[d] # "ensure"
     \/ pc[d] = "look"
  /\ profile[d] \notin known
  /\ Failed(d)
  /\ UNCHANGED <<known, p40, switches, abandoned, kind, profile, last, closed>>

Acquire(d) ==
  /\ pc[d] = "lease"
  /\ round[d] = "ensure" \/ profile[d] \in known
  /\ lease = Nobody
  /\ lease' = d
  /\ Goto(d, "look")
  /\ UNCHANGED <<known, p40, switches, abandoned, round, kind, profile, last, result, closed>>

\* _verify_profile_switch: active, healthy, the right model, a smoke test.
Verified(d) == p40.loaded = profile[d] /\ p40.works

\* _get_current_model_id: a service that does not work may not answer.
Look(d) ==
  /\ pc[d] = "look"
  /\ profile[d] \in known
  /\ \/ p40.loaded = profile[d] /\ Goto(d, "probe")
     \/ ~Verified(d) /\ Goto(d, "switch")
  /\ UNCHANGED <<machine, round, kind, profile, last, result, closed>>

Probe(d) ==
  /\ pc[d] = "probe"
  /\ IF Verified(d) THEN Ensured(d) ELSE Goto(d, "switch") /\ UNCHANGED <<lease, round>>
  /\ UNCHANGED <<known, p40, switches, abandoned, kind, profile, last, result, closed>>

\* There is no lock directory, or no sudo: an exception that is no
\* ModelProfileError.
Raise(d) ==
  /\ \/ pc[d] = "lease" /\ (round[d] = "ensure" \/ profile[d] \in known)
     \/ pc[d] = "switch"
  /\ result' = [result EXCEPT ![d] = "error"]
  /\ Release(d)
  /\ Goto(d, "record")
  /\ UNCHANGED <<known, p40, switches, abandoned, round, kind, profile, last, closed>>

Switch(d) ==
  /\ pc[d] = "switch"
  /\ switches' = switches \cup {[by |-> d, profile |-> profile[d], stage |-> "begun"]}
  /\ Goto(d, "wait")
  /\ UNCHANGED <<known, p40, lease, abandoned, round, kind, profile, last, result, closed>>

\* There is no wrapper.
SwitchMissing(d) ==
  /\ pc[d] = "switch"
  /\ Failed(d)
  /\ UNCHANGED <<known, p40, switches, abandoned, kind, profile, last, closed>>

Of(d) == {w \in switches : w.by = d}

SwitchedKeeps(d) ==   \* mutant: the wrapper is not waited for
  /\ pc[d] = "wait"
  /\ Goto(d, "verify")
  /\ UNCHANGED <<machine, round, kind, profile, last, result, closed>>

\* The wrapper exits, with status zero or not.
Switched(d) ==
  /\ pc[d] = "wait"
  /\ \E w \in Of(d) : w.stage = "exited"
  /\ switches' = switches \ Of(d)
  /\ \/ Goto(d, "verify") /\ UNCHANGED <<lease, round, result>>
     \/ Failed(d)
  /\ UNCHANGED <<known, p40, abandoned, kind, profile, last, closed>>

\* A daemon leaves its wrapper, if it has one, to itself.
Abandon(d) ==
  LET left == {w \in Of(d) : w.stage # "exited"} IN
  /\ abandoned' = abandoned + IF left = {} THEN 0 ELSE 1
  /\ abandoned' <= MaxAbandoned
  /\ switches' = (switches \ Of(d)) \cup {[w EXCEPT !.by = Nobody] : w \in left}

\* TimeoutExpired: only sudo is killed.
SwitchTimeout(d) ==
  /\ pc[d] = "wait"
  /\ Abandon(d)
  /\ Failed(d)
  /\ UNCHANGED <<known, p40, kind, profile, last, closed>>

Verify(d) ==
  /\ pc[d] = "verify"
  /\ \/ Verified(d) /\ Ensured(d) /\ UNCHANGED result
     \/ ~Verified(d) /\ Failed(d)
  /\ UNCHANGED <<known, p40, switches, abandoned, kind, profile, last, closed>>

-----------------------------------------------------------------------------
(* The daemon and its handlers. *)

\* A started task.  One whose worker is not on the P40 is given to its handler
\* without a lease, whatever its kind.
Begin(d) ==
  /\ pc[d] = "idle"
  /\ \E k \in Kinds[d] :
       /\ kind' = [kind EXCEPT ![d] = k.handler]
       /\ profile' = [profile EXCEPT ![d] = k.profile]
       /\ Goto(d, IF k.profile = "none" THEN "run" ELSE "lease")
  /\ last' = [last EXCEPT ![d] =
                [h \in Handlers |-> IF @[h] = "none" THEN "none" ELSE "stale"]]
  /\ closed' = [closed EXCEPT ![d] = Unclosed]
  /\ UNCHANGED <<machine, round, result>>

\* How a handler may end, with a last_result and without one; "error" is an
\* exception.
VisionEnds == [with    |-> {"success", "awaiting_review"},
               without |-> {"failed", "unavailable", "retry", "error"}]
CodingEnds == [with    |-> {"success", "awaiting_review", "failed", "retry", "error"},
               without |-> {"failed", "unavailable", "error"}]
ReviewEnds == [with    |-> {"success", "failed", "unavailable"},
               without |-> {"failed", "unavailable", "error"}]

Ends == [vision |-> VisionEnds, coding |-> CodingEnds, review |-> ReviewEnds]

EndKeeps(d, r) ==   \* mutant: last_result is not cleared first
  \/ r \in Ends[kind[d]].with /\ last' = [last EXCEPT ![d][kind[d]] = "own"]
  \/ r \in Ends[kind[d]].without /\ UNCHANGED last

\* execute() clears last_result first.
End(d, r) ==
  \/ r \in Ends[kind[d]].with /\ last' = [last EXCEPT ![d][kind[d]] = "own"]
  \/ r \in Ends[kind[d]].without /\ last' = [last EXCEPT ![d][kind[d]] = "none"]

\* The handler runs and ends, and the lease is given back.  A failure after
\* the remediation is retried.
Execute(d) ==
  /\ pc[d] = "run"
  /\ \E r \in Results :
       /\ End(d, r)
       /\ result' = [result EXCEPT ![d] =
                       IF r = "failed" /\ round[d] = "again" THEN "retry" ELSE r]
  /\ Release(d)
  /\ Goto(d, "record")
  /\ UNCHANGED <<known, p40, switches, abandoned, round, kind, profile, closed>>

\* The attempt is closed with whatever its handler has in last_result; only
\* after an exception with the exception.
Record(d) ==
  /\ pc[d] = "record"
  /\ closed' = [closed EXCEPT ![d] =
                  [result |-> result[d],
                   evidence |-> IF result[d] = "error" THEN "own" ELSE last[d][kind[d]]]]
  /\ Return(d)
  /\ UNCHANGED <<machine, last>>

\* The process dies and starts again: the lock goes with it, and the handlers.
Kill(d) ==
  /\ Abandon(d)
  /\ Release(d)
  /\ Return(d)
  /\ last' = [last EXCEPT ![d] = [h \in Handlers |-> "none"]]
  /\ closed' = [closed EXCEPT ![d] = Unclosed]
  /\ UNCHANGED <<known, p40>>

Steps(d) ==
  \/ Unknown(d) \/ Look(d) \/ Probe(d) \/ Switch(d) \/ Switched(d)
  \/ SwitchTimeout(d) \/ Verify(d) \/ Execute(d) \/ Record(d)

Next ==
  \/ Service
  \/ \E w \in switches : Advance(w)
  \/ \E d \in Daemons :
       \/ Begin(d) \/ Acquire(d) \/ Steps(d)
       \/ Raise(d) \/ SwitchMissing(d) \/ Kill(d)

Spec == Init /\ [][Next]_vars

\* A daemon goes on: the calls it makes are bounded by timeouts of their own,
\* as a wrapper is, but for the git commands of the coding and review handlers
\* (handlers.py:513-541, 599-610), which are taken to return.  And who waits for the
\* lock gets it if it is free again and again.
Fairness ==
  /\ WF_vars(\E w \in switches : Advance(w))
  /\ \A d \in Daemons : WF_vars(Steps(d)) /\ SF_vars(Acquire(d))

FairSpec == Spec /\ Fairness

-----------------------------------------------------------------------------
(* Properties. *)

\* Types; and a wrapper runs only for a daemon that waits for it.
ProfileTypeOK ==
  /\ known \subseteq P40Profiles
  /\ p40 \in [loaded : P40Profiles \cup {"none"}, works : BOOLEAN]
  /\ lease \in Daemons \cup {Nobody}
  /\ switches \subseteq [by : Daemons \cup {Nobody}, profile : P40Profiles,
                         stage : {"begun", "stopped", "exited"}]
  /\ abandoned \in 0 .. MaxAbandoned
  /\ pc \in [Daemons -> PCs]
  /\ round \in [Daemons -> {"first", "ensure", "again"}]
  /\ kind \in [Daemons -> Handlers]
  /\ profile \in [Daemons -> P40Profiles \cup {"none"}]
  /\ last \in [Daemons -> [Handlers -> Evidence]]
  /\ result \in [Daemons -> Results]
  /\ closed \in [Daemons -> [result : Results, evidence : Evidence]]
  /\ \A w \in switches : w.by # Nobody => pc[w.by] = "wait" /\ profile[w.by] = w.profile

\* While a handler uses the P40, its profile is loaded and nobody switches,
\* whichever daemons share the machine and however their switches fail, so
\* long as no switch was abandoned.  An abandoned one may come at any time.
RunsUnderProfile ==
  \A d \in Daemons :
    pc[d] = "run" /\ profile[d] # "none" /\ abandoned = 0
      => p40.loaded = profile[d] /\ switches = {}

\* A verdict is never closed with the result of another run, although the
\* handlers are shared by all tasks of a process: neither a success, nor a
\* failure (whose class depends on it), nor what a reviewer is shown.
FinalResultsAreOwn ==
  \A d \in Daemons :
    closed[d].result \in {"success", "failed", "awaiting_review", "error"}
      => closed[d].evidence # "stale"

\* "Structured handler result to persist on the closed attempt"
\* (transition_running_to_retry_wait, scheduler.py:1653): an attempt that is
\* to be retried is closed with its own result, or none.
RetryResultsAreOwn ==
  \A d \in Daemons : closed[d].result = "retry" => closed[d].evidence # "stale"

\* Every task a daemon has started comes to an end, also when its profile
\* cannot be loaded: the remediation, which takes the lease again, never
\* waits for a lease the daemon holds itself.
ExecutionsEnd == \A d \in Daemons : []<>(pc[d] = "idle")

=============================================================================

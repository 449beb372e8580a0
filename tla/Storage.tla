------------------------------- MODULE Storage -------------------------------
(***************************************************************************)
(* The durable inputs of gtx_broker/scheduler/storage.py: one directory    *)
(* per staged input under incoming, processing or processed, with a        *)
(* metadata.json.  A method is several file-system calls and the process   *)
(* may die between any two; each operator here is one such call.           *)
(*                                                                         *)
(* The claim and the two writes of complete_task open metadata.json for    *)
(* writing in place, so a crash may leave it torn.  requeue_for_retry and  *)
(* update_metadata write a temporary file and rename it over the old one.  *)
(***************************************************************************)
CONSTANTS Inputs   \* tasks that have a staged input

VARIABLES
  dir,       \* the directory the input is in
  status,    \* metadata "status"
  outcome,   \* metadata "scheduler_outcome"
  torn       \* metadata.json is not JSON any more

storageVars == <<dir, status, outcome, torn>>

Dirs == {"none", "incoming", "processing", "processed"}
Statuses == {"accepted", "queued", "processing", "processed", "rejected"}
Outcomes == {"none", "retry_wait", "succeeded", "failed", "awaiting_review"}

StorageInit ==
  /\ dir = [t \in Inputs |-> "none"]
  /\ status = [t \in Inputs |-> "accepted"]
  /\ outcome = [t \in Inputs |-> "none"]
  /\ torn = [t \in Inputs |-> FALSE]

StorageTypeOK ==
  /\ dir \in [Inputs -> Dirs]
  /\ status \in [Inputs -> Statuses]
  /\ outcome \in [Inputs -> Outcomes]
  /\ torn \in [Inputs -> BOOLEAN]

-----------------------------------------------------------------------------
\* stage_input assembles the directory under tmp and renames it to incoming.
StageInput(t) ==
  /\ dir[t] = "none"
  /\ dir' = [dir EXCEPT ![t] = "incoming"]
  /\ status' = [status EXCEPT ![t] = "accepted"]
  /\ outcome' = [outcome EXCEPT ![t] = "none"]
  /\ UNCHANGED torn

\* claim_for_processing returns None unless this holds.
Claimable(t) == dir[t] = "incoming" /\ status[t] = "accepted"

Move(t, d) ==
  /\ dir' = [dir EXCEPT ![t] = d]
  /\ UNCHANGED <<status, outcome, torn>>

SetStatus(t, s) ==
  /\ status' = [status EXCEPT ![t] = s]
  /\ UNCHANGED <<dir, outcome, torn>>

SetOutcome(t, o) ==
  /\ outcome' = [outcome EXCEPT ![t] = o]
  /\ UNCHANGED <<dir, status, torn>>

\* The last rename of requeue_for_retry: the input may be claimed again.
Release(t) ==
  /\ status' = [status EXCEPT ![t] = "accepted"]
  /\ outcome' = [outcome EXCEPT ![t] = "retry_wait"]
  /\ UNCHANGED <<dir, torn>>

\* The process dies while metadata.json is open for writing.
Tear(t) ==
  /\ torn' = [torn EXCEPT ![t] = TRUE]
  /\ UNCHANGED <<dir, status, outcome>>

\* cleanup_old_tasks: an input in incoming or processed that is old enough.
Expired(t) ==
  /\ dir[t] \in {"incoming", "processed"}
  /\ status[t] \in {"processed", "rejected"}
  /\ ~torn[t]
=============================================================================

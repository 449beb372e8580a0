--------------------------- MODULE BacklogLifecycle ---------------------------
(***************************************************************************)
(* What the backlog queue promises (second_shift/backlog_runner.py): items *)
(* are taken in manifest order and one at a time, a change concerns one    *)
(* item only, and a completed item is left alone.  An item that is blocked *)
(* with a candidate awaiting its verification may still be settled.        *)
(***************************************************************************)
EXTENDS Naturals

CONSTANT Items        \* positions in the manifest

VARIABLE status

Statuses == {"queued", "in_progress", "completed", "blocked"}

Earliest(i, S) == i \in S /\ \A j \in S : i <= j

With(s) == {i \in Items : status[i] = s}

Init == status = [i \in Items |-> "queued"]

Claim(i) ==
  /\ With("in_progress") = {}
  /\ Earliest(i, With("queued"))
  /\ status' = [status EXCEPT ![i] = "in_progress"]

Conclude(i) ==
  /\ status[i] \in {"in_progress", "blocked"}
  /\ \E s \in {"queued", "completed", "blocked"} : status' = [status EXCEPT ![i] = s]

Next == \E i \in Items : Claim(i) \/ Conclude(i)

Spec == Init /\ [][Next]_status
=============================================================================

---------------------------- MODULE TaskLifecycle ----------------------------
(***************************************************************************)
(* What the scheduler promises about a task's state, whatever the          *)
(* processes do: every change follows a table of legal transitions, so a   *)
(* state without successors is final.                                      *)
(***************************************************************************)
CONSTANTS Tasks, Transitions

VARIABLE state

Successors(s) == IF s \in DOMAIN Transitions THEN Transitions[s] ELSE {}

Init == state = [t \in Tasks |-> "absent"]

Insert(t) ==
  /\ state[t] = "absent"
  /\ state' = [state EXCEPT ![t] = "queued"]

Move(t, s) ==
  /\ s \in Successors(state[t])
  /\ state' = [state EXCEPT ![t] = s]

Next == \E t \in Tasks :
  Insert(t) \/ \E s \in Successors(state[t]) : Move(t, s)

Spec == Init /\ [][Next]_state
=============================================================================

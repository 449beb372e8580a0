------------------------------ MODULE MCBacklog -------------------------------
(***************************************************************************)
(* Small instances of Backlog: item 1 is an ordinary implementation, item  *)
(* 2 is one the classifier gives to Codex.                                 *)
(***************************************************************************)
EXTENDS Backlog

CONSTANTS r1, r2

MCClassOf ==
  [i \in Items |-> IF i = 2 THEN "complex_reasoning" ELSE "bounded_implementation"]

\* Everywhere but between an outcome and the last checkpoint of an attempt.
SafeCrashPoints == PCs \ {"idle", "settled"}

\* The broker while routing, the worktree, the worker and the gates.
CallFaults == {"route", "dispatch", "request", "work", "tests",
               "review", "final"}
NoPoints == {}
=============================================================================

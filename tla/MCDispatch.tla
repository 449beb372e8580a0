----------------------------- MODULE MCDispatch ------------------------------
(***************************************************************************)
(* Small instances of Dispatch: the two P40 profiles share one resource,   *)
(* slow-coder has a resource of its own, the reviewer has none.            *)
(***************************************************************************)
EXTENDS Dispatch, TLC

CONSTANTS vision, coding, slow, codexReview,   \* workers
          img, code, batch,                     \* tasks
          d1, d2, r1, r2, m1, slowRes

MCWorkers == {vision, coding, slow, codexReview}
MCResources == {P40, slowRes}
MCResourceOf ==
  [w \in MCWorkers |-> CASE w \in {vision, coding} -> P40
                         [] w = slow -> slowRes
                         [] OTHER -> NoResource]

\* A vision task, an immediate manifest coding task, a nightly coding task.
MCWorkersFor ==
  [t \in Tasks |-> CASE t = img -> {vision}
                     [] t = code -> {coding}
                     [] OTHER -> {slow}]
MCP40Tasks == Tasks \cap {img, code}
MCManifestTasks == Tasks \cap {code}

AllControls == {"schedule", "planning"}
PlanningOnly == {"planning"}

\* The dispatchers are interchangeable; only invariants are checked with this.
DispatcherSymmetry == Permutations(Dispatchers)
=============================================================================

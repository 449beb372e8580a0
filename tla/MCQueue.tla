------------------------------- MODULE MCQueue --------------------------------
(***************************************************************************)
(* A small instance of Queue: an image, a batch and an immediate coding    *)
(* task, and a review that names a P40 worker.                             *)
(***************************************************************************)
EXTENDS Queue

CONSTANTS img, batch, code, rev

Columns(k, m, s, p) ==
  [ kind |-> k, mode |-> m, schedule |-> s, reviewTag |-> FALSE,
    reviewer |-> "none", profile |-> "none", priority |-> p ]

MCAttr ==
  [t \in Tasks |->
     CASE t = img -> Columns("vision", "vision", "nightly", 1)
       [] t = batch -> Columns("coding", "batch", "batch", 0)
       [] t = code -> Columns("coding", "immediate", "immediate", 1)
       [] t = rev -> [Columns("coding", "immediate", "immediate", 0)
                        EXCEPT !.reviewer = "p40-coding"]]

MCConfigured == Profiles
=============================================================================

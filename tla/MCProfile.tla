------------------------------- MODULE MCProfile -------------------------------
(***************************************************************************)
(* Two daemons on one machine: one is given images and reviews that name   *)
(* p40-coding, the other coding tasks, on the P40 and on slow-coder, so    *)
(* that they switch it to and fro.                                         *)
(***************************************************************************)
EXTENDS Profile, TLC

CONSTANTS d1, d2

On(h, p) == [handler |-> h, profile |-> p]

MCKinds ==
  (d1 :> {On("vision", "vision"), On("review", "coding")}) @@
  (d2 :> {On("coding", "coding"), On("coding", "none")})
=============================================================================

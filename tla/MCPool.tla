-------------------------------- MODULE MCPool ---------------------------------
(***************************************************************************)
(* Small instances of Pool: two original members, of which one fails, has  *)
(* its count set by hand and is quarantined, and a Copilot that loses and  *)
(* regains its credit, so that the pool crosses two and four in both       *)
(* directions, as often as the recovery tells apart.                       *)
(***************************************************************************)
EXTENDS Pool
=============================================================================

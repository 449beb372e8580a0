------------------------------- MODULE MCStaging -------------------------------
(***************************************************************************)
(* Two events that share nothing, each handed over again and again.        *)
(***************************************************************************)
EXTENDS Staging

MCId == [e \in Events |-> e]
MCName == [e \in Events |-> 1]
MCContent == [e \in Events |-> e]
=============================================================================

------------------------------- MODULE MCDaemon -------------------------------
(***************************************************************************)
(* Small instances of Daemon: img is a staged vision task, code a coding   *)
(* task without an input, and both need the P40.                           *)
(***************************************************************************)
EXTENDS Daemon

CONSTANTS vision, coding, img, img2, code

MCWorkers == {vision, coding}
MCResources == {P40}
MCResourceOf == [w \in MCWorkers |-> P40]
MCInputs == Tasks \cap {img, img2}
MCWorkersFor == [t \in Tasks |-> IF t = code THEN {coding} ELSE {vision}]
MCP40Tasks == Tasks
MCManifestTasks == Tasks \cap {code}

\* Everywhere but between the claim's move and its metadata write.
SafeCrashPoints == PCs \ {"down", "claimWrite"}
ClaimCrashPoints == {"claimWrite"}
AllFaults == PCs \ {"idle", "down", "start", "running"}
NoPoints == {}
AnyCrashPoint == PCs \ {"down"}
AnyTearPoint == InPlaceWrites
=============================================================================

------------------------------ MODULE Escalation ------------------------------
(***************************************************************************)
(* gtx_broker/classifier.py and gtx_broker/escalation_policy.py: the       *)
(* worker a coding goal starts with, and the worker that gets the next     *)
(* attempt.  Descriptions and review texts are abstracted to the class or  *)
(* the trigger that the keyword searches find in them.  The workflow is    *)
(* direct_escalation, the only one the backlog adapter reports attempts    *)
(* under.                                                                  *)
(***************************************************************************)
EXTENDS Naturals

CONSTANT MaxP40Attempts    \* MAX_P40_ATTEMPTS, three in the code

ASSUME EscalationAssumption == MaxP40Attempts \in Nat \ {0}

\* p40_qwen35 is the broker's choice, p40 the dispatcher's fallback without one.
P40Models == {"p40_qwen35", "p40"}
CodingWorkers == P40Models \cup {"codex"}

TaskClasses == {"benchmark_validation", "large_context", "complex_reasoning",
                "repair_local", "bounded_implementation"}

FirstWorker(class) == IF class = "complex_reasoning" THEN "codex" ELSE "p40_qwen35"

-----------------------------------------------------------------------------
(* Results of an attempt, grouped as evaluate_failure tells them apart:    *)
(* partial_code, incorrect_code and tests_failed are substantive, every    *)
(* other failure, rejected_code included, is operational.                  *)

Results == {"success", "substantive", "operational"}

\* What the review text of a substantive failure says.
Triggers == {"none", "architectural", "cross_file", "repeated", "test_only",
             "unrelated_files"}

\* The attempt counter is only ever compared with the limit.
Attempts == 1 .. MaxP40Attempts + 1
NextAttempt(n) == IF n <= MaxP40Attempts THEN n + 1 ELSE n
WithinBudget(n) == n <= MaxP40Attempts

\* n is the attempt that is to run next.
StaysOnP40(result, trigger, n) ==
  \/ result = "operational" /\ WithinBudget(n)
  \/ /\ result = "substantive"
     /\ \/ trigger \in {"repeated", "test_only"}
        \/ trigger = "none" /\ WithinBudget(n)

NextWorker(result, trigger, n) ==
  IF StaysOnP40(result, trigger, n) THEN "p40_qwen35" ELSE "codex"
=============================================================================

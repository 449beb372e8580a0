SPECIFICATION Spec
CONSTANTS
  NoGoal = NoGoal
  NoWorker = NoWorker
  NoCount = NoCount
  Originals = {"p40", "m2"}
  Goals = {"g1"}
  Callers = {"c1"}
  Metered = {"copilot"}
  Judged = {"m2"}
  Corrected = {"m2"}
  Counts = {1}
  Threshold = 2
  MaxFailures = 2
  MaxReports = 1
  MaxKills = 1

INVARIANT PoolTypeOK
INVARIANT ObservationSettles
INVARIANT FailuresAccounted
INVARIANT EscalationEarned

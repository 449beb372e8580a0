SPECIFICATION FairSpec
CONSTANTS
  img = img
  batch = batch
  code = code
  rev = rev
  NoTask = NoTask
  Tasks = {img, batch, code, rev}
  Attr <- MCAttr
  Hours = {0, 6}
  Cancellable = {img}
  Configured <- MCConfigured
  Flaky = {"slow-coder"}
  Controls = {"schedule", "planning", "mode"}
  Results = {"succeeded", "retry_wait"}

INVARIANT QueueTypeOK
INVARIANT BoundaryKept
PROPERTY QueuedTasksRun
PROPERTY PlanningLeavesOthers
PROPERTY LoopRests

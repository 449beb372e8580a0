SPECIFICATION FairSpec
CONSTANTS
  vision = vision
  coding = coding
  slow = slow
  codexReview = codexReview
  img = img
  code = code
  batch = batch
  d1 = d1
  d2 = d2
  r1 = r1
  r2 = r2
  m1 = m1
  slowRes = slowRes
  P40 = P40
  NoResource = NoResource
  NoWorker = NoWorker
  NoTask = NoTask
  Tasks = {img, code, batch}
  Dispatchers = {d1}
  Reviewers = {r1}
  Maintainers = {}
  Cancellable = {}
  Killable = {}
  Controls <- AllControls
  Workers <- MCWorkers
  Resources <- MCResources
  ResourceOf <- MCResourceOf
  WorkersFor <- MCWorkersFor
  P40Tasks <- MCP40Tasks
  ManifestTasks <- MCManifestTasks

INVARIANT ExecutionRecorded
INVARIANT NoStaleDecision
INVARIANT NoOrphanAttempt
PROPERTY FollowsLifecycle
PROPERTY ClaimsResolve
PROPERTY PlanningDrains

SPECIFICATION Spec
CONSTANTS
  vision = vision
  coding = coding
  slow = slow
  codexReview = codexReview
  img = img
  code = code
  batch = batch
  d1 = d1
  d2 = d2
  r1 = r1
  r2 = r2
  m1 = m1
  slowRes = slowRes
  P40 = P40
  NoResource = NoResource
  NoWorker = NoWorker
  NoTask = NoTask
  Tasks = {img, code}
  Dispatchers = {d1, d2}
  Reviewers = {}
  Maintainers = {m1}
  Cancellable = {code}
  Killable = {d1, d2}
  Controls <- PlanningOnly
  Workers <- MCWorkers
  Resources <- MCResources
  ResourceOf <- MCResourceOf
  WorkersFor <- MCWorkersFor
  P40Tasks <- MCP40Tasks
  ManifestTasks <- MCManifestTasks
SYMMETRY DispatcherSymmetry

INVARIANT DispatchTypeOK
INVARIANT ResourceExclusion
INVARIANT ReadyMeansFree

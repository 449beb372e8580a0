SPECIFICATION FairSpec
CONSTANTS
  vision = vision
  coding = coding
  img = img
  img2 = img2
  code = code
  P40 = P40
  NoResource = NoResource
  NoWorker = NoWorker
  NoTask = NoTask
  Tasks = {img, img2}
  IngressTasks = {}
  Cancellable = {}
  Reviewed = {img, img2}
  Expiring = {}
  MaxCrashes = 2
  Inputs <- MCInputs
  Workers <- MCWorkers
  Resources <- MCResources
  ResourceOf <- MCResourceOf
  WorkersFor <- MCWorkersFor
  P40Tasks <- MCP40Tasks
  ManifestTasks <- MCManifestTasks
  CrashPoints <- SafeCrashPoints
  TearPoints <- AnyTearPoint
  FaultPoints <- NoPoints

INVARIANT DaemonTypeOK
INVARIANT WaitingIsClaimable
INVARIANT NothingInLimbo
PROPERTY ResultIsFinal
PROPERTY FollowsLifecycle
PROPERTY RecoveryCompletes
PROPERTY StagedWorkResolves

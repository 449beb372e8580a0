SPECIFICATION Spec
CONSTANTS
  vision = vision
  coding = coding
  img = img
  img2 = img2
  code = code
  P40 = P40
  NoResource = NoResource
  NoWorker = NoWorker
  NoTask = NoTask
  Tasks = {img, code}
  IngressTasks = {img}
  Cancellable = {img}
  Reviewed = {img}
  Expiring = {img}
  MaxCrashes = 2
  Inputs <- MCInputs
  Workers <- MCWorkers
  Resources <- MCResources
  ResourceOf <- MCResourceOf
  WorkersFor <- MCWorkersFor
  P40Tasks <- MCP40Tasks
  ManifestTasks <- MCManifestTasks
  CrashPoints <- AnyCrashPoint
  TearPoints <- AnyTearPoint
  FaultPoints <- AllFaults

INVARIANT ResultIsDurable
INVARIANT HandlerOwnsInput

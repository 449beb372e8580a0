SPECIFICATION FairSpec
CONSTANTS
  NoItem = NoItem
  NoOwner = NoOwner
  NoState = NoState
  r1 = r1
  r2 = r2
  Items = {1, 2}
  Runners = {r1}
  ReviewTriggers = {"none", "repeated"}
  MaxMishaps = 1
  MaxP40Attempts = 1
  ClassOf <- MCClassOf
  CrashPoints <- SafeCrashPoints
  FaultPoints <- CallFaults

INVARIANT BacklogTypeOK
INVARIANT CompletedVerified
INVARIANT LiveLookingIsLive
PROPERTY EvidenceFirst
PROPERTY FollowsQueue
PROPERTY AttemptsEnd
PROPERTY CandidatesResolve

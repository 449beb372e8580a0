SPECIFICATION FairSpec
CONSTANTS
  d1 = d1
  d2 = d2
  Nobody = Nobody
  Daemons = {d1, d2}
  Kinds <- MCKinds
  MaxAbandoned = 1

INVARIANT ProfileTypeOK
INVARIANT RunsUnderProfile
INVARIANT FinalResultsAreOwn
PROPERTY ExecutionsEnd

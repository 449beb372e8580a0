SPECIFICATION Spec
CONSTANTS
  d1 = d1
  d2 = d2
  Nobody = Nobody
  Daemons = {d1, d2}
  Kinds <- MCKinds
  MaxAbandoned = 0

INVARIANT RetryResultsAreOwn

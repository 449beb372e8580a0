SPECIFICATION Spec
CONSTANTS
  NoItem = NoItem
  NoOwner = NoOwner
  NoState = NoState
  r1 = r1
  r2 = r2
  Items = {1, 2}
  Runners = {r1, r2}
  ReviewTriggers = {"none", "repeated"}
  MaxMishaps = 0
  MaxP40Attempts = 1
  ClassOf <- MCClassOf
  CrashPoints <- NoPoints
  FaultPoints <- NoPoints

PROPERTY TransitionsOneItem

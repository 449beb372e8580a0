SPECIFICATION Spec
CONSTANTS
  Nobody = Nobody
  NoEvent = NoEvent
  Callers = {"c1", "c2"}
  Events = {"e1", "e2"}
  Ids = {"e1", "e2"}
  Id <- MCId
  Name <- MCName
  Content <- MCContent
  MaxKills = 2
  MaxErrors = 2

INVARIANT StagingTypeOK
INVARIANT SavedIsDurable

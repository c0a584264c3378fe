SPECIFICATION FairSpec
CONSTANTS
  Owner = {o1, o2}
  MaxResult = 1
  Overlap = {"process"}
  None = None
INVARIANTS
  QueuedOnce
  RecordsFollowMessages
  
PROPERTIES
  Notified
  ShutdownReturns
CHECK_DEADLOCK FALSE

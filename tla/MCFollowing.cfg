SPECIFICATION FairSpec
CONSTANTS
  Capacity = 3
  Stream <- MCStream
  Chunk = {1, 2, 4}
  ReadLimit = {1, 2, 3}
INVARIANTS
  HistoryIsNewest
  FollowerMissesNothing
  ExitIsLast
PROPERTIES
  ExitIsPublished
CHECK_DEADLOCK FALSE

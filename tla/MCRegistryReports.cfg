SPECIFICATION FairSpec
CONSTANTS
  Terminal = {t1, t2}
  Window = {w1}
  Kind = {"pi"}
  Stopper = {}
  Waiter = {v1}
  MaxId = 1
  MaxSeq = 2
  MaxRevision = 3
  MaxClock = 1
  CompletedLimit = 1
  Ttl = 0
  None = None
PROPERTIES
  ResultNeverRegresses
  CompletedIsFinal
  WaiterSeesTheEnd
CHECK_DEADLOCK FALSE

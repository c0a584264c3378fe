SPECIFICATION Spec
CONSTANTS
  Terminal = {t1, t2}
  Window = {w1, w2}
  Kind = {"process"}
  Stopper = {s1, s2}
  Waiter = {}
  MaxId = 2
  MaxSeq = 0
  MaxRevision = 1
  MaxClock = 1
  CompletedLimit = 1
  Ttl = 1
  None = None
SYMMETRY Symmetry
INVARIANTS
  CapabilitiesReleased
  StopMarkBacked
  TerminalOwnedOnce
  RollbackIsFinal
  DetachedHasNoParent
  CompletedBounded
PROPERTIES
  RunningNeverPruned
  LivesAsPromised
  NewestAreRetained
CHECK_DEADLOCK FALSE

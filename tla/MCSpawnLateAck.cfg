SPECIFICATION SpawnSpec
CONSTANTS
  p1 = p1
  t1 = t1
  t2 = t2
  Terminal = {p1, t1, t2}
  Window = {w1}
  Kind = {"process"}
  Stopper = {s1, main}
  Waiter = {}
  MaxId = 1
  MaxSeq = 0
  MaxRevision = 0
  MaxClock = 0
  CompletedLimit = 1
  Ttl = 1
  Parent = {p1}
  TheWindow = w1
  Main = main
  None = None
  TabOf <- MCTabOf
INVARIANTS
  AcceptedIsTracked
CHECK_DEADLOCK FALSE

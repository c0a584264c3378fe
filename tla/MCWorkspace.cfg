SPECIFICATION FairSpec
CONSTANTS
  first = w1
  terminal = t1
  otherTerminal = t2
  project = p1
  otherProject = p2
  item = i1
  Window = {w1, w2}
  Request = {r1, r2}
  Terminal = {t1, t2}
  Project = {p1, p2}
  Item = {i1, i2}
  None = None
  Home <- MCHome
  Items <- MCItems
  Knows <- AllKnow
  Asked <- Create
INVARIANTS
  AnsweredByTarget
  AlwaysAnswerable
  OneAnswerInTime
  RoutedAsPerformed
PROPERTIES
  RequestsReturn
CHECK_DEADLOCK FALSE

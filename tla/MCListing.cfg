SPECIFICATION Spec
CONSTANTS
  MaxId = 4
  Terminal = {t1}
  None = None
  Limit = {1, 2, 3}
  Size = {2, 6}
  Budget = 5
INVARIANTS
  ListingIsExact
CHECK_DEADLOCK FALSE

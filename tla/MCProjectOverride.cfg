SPECIFICATION StoreSpec
CONSTANTS
  Agent = {a, b}
  Call = {c, d}
  Absent = Absent
  Unranked = Unranked
  MaxEdits = 3
  MaxFaults = 1
  MaxCrashes = 0
SYMMETRY Symmetry
PROPERTIES
  GlobalCopyFirst
CHECK_DEADLOCK FALSE

SPECIFICATION StoreSpec
CONSTANTS
  Agent = {a, b}
  Call = {c, d}
  Absent = Absent
  Unranked = Unranked
  MaxEdits = 3
  MaxFaults = 1
  MaxCrashes = 1
SYMMETRY Symmetry
INVARIANTS
  SettledIsSaved
  
PROPERTIES
  AgentStaysOnDisk
  RenameSurvives
CHECK_DEADLOCK FALSE

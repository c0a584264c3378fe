SPECIFICATION FairPoolSpec
CONSTANTS
  Client = {c1, c2}
  Kind = {"subagentWait", "workspace"}
  Concurrency = 2
INVARIANTS
  AcceptedHasWorker
  RefusedIsNotPerformed
  ProtocolAgrees
PROPERTIES
  DropReturns
CHECK_DEADLOCK FALSE

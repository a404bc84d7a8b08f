SPECIFICATION Spec
CONSTANTS
  MaxEvidence = 2
  MaxRequests = 2
  MaxBatch = 2
  Kills = 2
  Writes = 2
  Holds = 1
INVARIANTS NothingLost
PROPERTIES NoRollback Restored

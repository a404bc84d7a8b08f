SPECIFICATION Spec
CONSTANTS
  Brokers = {b1, b2, b3}
  Lanes = {l1}
  Nobody = Nobody
  MaxFaults = 1
INVARIANTS WorkExcludes
PROPERTIES RefinesFence StopServed
CHECK_DEADLOCK FALSE

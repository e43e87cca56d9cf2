\* InvalidateRecord's local overwrite against the spec's (Clock, NodeID) merge.
CONSTANTS
  k1 = k1
  r1 = r1
  r2 = r2
  None = None
  Node <- MCNodeTwo
  Key <- MCKey
  Reason <- MCReason
  MaxClock = 2
SPECIFICATION Spec
INVARIANTS
  RecordConvergence
CHECK_DEADLOCK FALSE

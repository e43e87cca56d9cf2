\* Core replication run: resolver Put, the admin RPCs and pull replication.
CONSTANTS
  k1 = k1
  r1 = r1
  r2 = r2
  None = None
  Node <- MCNode
  Key <- MCKey
  Reason <- MCReasonOne
  MaxClock = 2
SPECIFICATION Spec
INVARIANTS
  TypeOK
  ViewConvergence
  InvalidationHonoured
PROPERTIES
  Converges
CHECK_DEADLOCK FALSE

\* findBoolFlagEarly against the flag parser, on command lines using the flag once.
CONSTANTS
  MaxArgs <- MCMaxArgs
SPECIFICATION Spec
INVARIANTS
  EarlyScanAgreesOnSingleUse
CHECK_DEADLOCK FALSE

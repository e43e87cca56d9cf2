\* The auth service's start-up: migration before serving, and the migration returning.
SPECIFICATION Spec
INVARIANTS
  MigratedBeforeServing
PROPERTIES
  MigrationReturns
CHECK_DEADLOCK FALSE

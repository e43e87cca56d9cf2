\* cmdMigrationRun's deferred kv.Close against the kv.Run goroutine on the error paths.
SPECIFICATION Spec
INVARIANT
  KVClosedAfterRun
CHECK_DEADLOCK FALSE

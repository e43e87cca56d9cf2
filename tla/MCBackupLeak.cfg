\* A failed upload leaves the stream goroutine blocked on the pipe.
CONSTANTS
  Chunks <- MCChunks
  MaxRuns <- MCMaxRuns
SPECIFICATION Spec
INVARIANTS
  NoConcurrentBackupStreams
CHECK_DEADLOCK FALSE

\* RunOnce's pipe protocol: what a successful backup holds, and that RunOnce implements the backup job.
CONSTANTS
  Chunks <- MCChunks
  MaxRuns <- MCMaxRuns
SPECIFICATION Spec
INVARIANTS
  SuccessMeansCompleteBackup
PROPERTIES
  RunOnceImplementsJob
CHECK_DEADLOCK FALSE

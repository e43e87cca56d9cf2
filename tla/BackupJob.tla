------------------------------ MODULE BackupJob ------------------------------
(***************************************************************************)
(* What a backup run promises the sync2.Cycle that runs it (spec 4.8):     *)
(* runs happen one after the other; a run either stores the database as    *)
(* one complete object and returns nil, or returns an error and leaves no  *)
(* object; and every run that starts returns.  The pipe, the stream        *)
(* goroutine and the chunks of Backup.tla are not visible here.            *)
(***************************************************************************)
EXTENDS Naturals

CONSTANTS
  MaxRuns   \* cycle iterations

VARIABLES
  run,     \* the latest run started (0: none)
  busy,    \* a run is in progress
  result,  \* per run: "none" | "ok" | "err"
  object   \* per run, its object in the bucket: "none" | "complete"

jobVars == <<run, busy, result, object>>

JobRuns == 1..MaxRuns

JobInit ==
  /\ run = 0
  /\ busy = FALSE
  /\ result = [r \in JobRuns |-> "none"]
  /\ object = [r \in JobRuns |-> "none"]

\* The cycle starts the next run once the previous one has returned.
StartRun ==
  /\ ~busy
  /\ run < MaxRuns
  /\ run' = run + 1
  /\ busy' = TRUE
  /\ UNCHANGED <<result, object>>

\* The whole snapshot becomes the run's object, in one step.
StoreObject ==
  /\ busy
  /\ object[run] = "none"
  /\ object' = [object EXCEPT ![run] = "complete"]
  /\ UNCHANGED <<run, busy, result>>

\* The run returns: nil exactly when its object is stored.
FinishRun ==
  /\ busy
  /\ busy' = FALSE
  /\ result' = [result EXCEPT ![run] =
                  IF object[run] = "complete" THEN "ok" ELSE "err"]
  /\ UNCHANGED <<run, object>>

JobNext == StartRun \/ StoreObject \/ FinishRun

\* A run in progress returns; whether it stores its object first is not
\* promised.
JobSpec == JobInit /\ [][JobNext]_jobVars /\ WF_jobVars(FinishRun)

=============================================================================

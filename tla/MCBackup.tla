------------------------------ MODULE MCBackup ------------------------------
(* Three cycle iterations, so that a run can start while the stream      *)
(* goroutines of two earlier runs are still alive; three chunks, so that a *)
(* stream can fail, or an upload stop, before, between or after writes.    *)
EXTENDS Backup

MCChunks == 3
MCMaxRuns == 3
=============================================================================

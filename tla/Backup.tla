------------------------------- MODULE Backup -------------------------------
(***************************************************************************)
(* Backup.RunOnce (src/pkg/auth/badgerauth/admin.go, the backup.go part)   *)
(* run by a sync2.Cycle.  Each run creates an io.Pipe, starts a goroutine  *)
(* in an errgroup that streams a badger snapshot into the pipe writer and  *)
(* closes it with the stream's error, and calls Client.PutObject on the    *)
(* pipe reader in the calling goroutine.  If PutObject fails RunOnce       *)
(* returns at once; otherwise it waits for the group.                      *)
(*                                                                         *)
(* io.Pipe is synchronous: a Write blocks until a Read takes the data or   *)
(* the reader is closed; a Read blocks until a Write or the writer is      *)
(* closed (EOF on Close(nil), the error on CloseWithError(err)).  The      *)
(* snapshot is Chunks writes long.                                         *)
(***************************************************************************)
EXTENDS Naturals, FiniteSets

CONSTANTS
  Chunks,   \* pipe writes of one snapshot stream
  MaxRuns   \* cycle iterations explored

ASSUME Chunks \in Nat \ {0} /\ MaxRuns \in Nat \ {0}

Runs == 1..MaxRuns

(* stream[r], the backup goroutine of run r:                               *)
(*   "idle"      not started                                               *)
(*   "producing" inside stream.Backup, reading the snapshot                *)
(*   "blocked"   inside w.Write with a chunk no reader has taken yet       *)
(*   "closed"    returned after w.CloseWithError(nil): the reader sees EOF *)
(*   "failed"    returned after w.CloseWithError(err)                      *)
StreamStates == {"idle", "producing", "blocked", "closed", "failed"}
Running == {"producing", "blocked"}

VARIABLES
  run,      \* the run the cycle is executing or executed last (0: none)
  phase,    \* RunOnce's goroutine: "sleep" | "upload" (in PutObject) | "wait"
  stream,   \* per run, its backup goroutine
  sent,     \* per run, chunks that went through the pipe
  result,   \* per run, what RunOnce returned: "none" | "ok" | "err"
  object    \* per run, the object in the bucket: "none" | "complete" | "partial"

vars == <<run, phase, stream, sent, result, object>>

-----------------------------------------------------------------------------
Init ==
  /\ run = 0
  /\ phase = "sleep"
  /\ stream = [r \in Runs |-> "idle"]
  /\ sent = [r \in Runs |-> 0]
  /\ result = [r \in Runs |-> "none"]
  /\ object = [r \in Runs |-> "none"]

\* The cycle fires RunOnce: io.Pipe, the object key, group.Go(stream).
StartRunOnce ==
  /\ phase = "sleep"
  /\ run < MaxRuns
  /\ run' = run + 1
  /\ phase' = "upload"
  /\ stream' = [stream EXCEPT ![run + 1] = "producing"]
  /\ UNCHANGED <<sent, result, object>>

\* stream.Backup reads the next part of the snapshot and calls w.Write.
ProduceChunk(r) ==
  /\ stream[r] = "producing"
  /\ sent[r] < Chunks
  /\ stream' = [stream EXCEPT ![r] = "blocked"]
  /\ UNCHANGED <<run, phase, sent, result, object>>

\* Mutation: the goroutine ends with w.Close(), dropping the stream error.
CloseWriterIgnoringErr(r, err) == [stream EXCEPT ![r] = "closed"]

\* The goroutine's last statement: return w.CloseWithError(err), with the
\* err stream.Backup returned (nil once the snapshot is exhausted).
CloseWriter(r, err) ==
  [stream EXCEPT ![r] = IF err THEN "failed" ELSE "closed"]

\* stream.Backup returns: nil after the whole snapshot, or an error from
\* reading it at any point before.
StreamReturns(r) ==
  /\ stream[r] = "producing"
  /\ \/ sent[r] = Chunks /\ stream' = CloseWriter(r, FALSE)
     \/ stream' = CloseWriter(r, TRUE)
  /\ UNCHANGED <<run, phase, sent, result, object>>

\* PutObject reads the chunk the blocked w.Write offers.
PipeTransfer ==
  /\ phase = "upload"
  /\ stream[run] = "blocked"
  /\ sent' = [sent EXCEPT ![run] = @ + 1]
  /\ stream' = [stream EXCEPT ![run] = "producing"]
  /\ UNCHANGED <<run, phase, result, object>>

\* PutObject reads EOF and completes the object with what it read; RunOnce
\* goes on to group.Wait.
UploadEOF ==
  /\ phase = "upload"
  /\ stream[run] = "closed"
  /\ object' = [object EXCEPT ![run] = IF sent[run] = Chunks THEN "complete"
                                                            ELSE "partial"]
  /\ phase' = "wait"
  /\ UNCHANGED <<run, stream, sent, result>>

\* Mutation: RunOnce waits for the group on the error path as well.
UploadFailsThenWait ==
  /\ phase = "upload"
  /\ phase' = "wait"
  /\ UNCHANGED <<run, stream, sent, result, object>>

\* PutObject returns an error: the stream's error read from the pipe, or a
\* failure of the object store at any time.  RunOnce returns
\* BackupError("upload object") at once, without closing the pipe reader.
UploadFails ==
  /\ phase = "upload"
  /\ phase' = "sleep"
  /\ result' = [result EXCEPT ![run] = "err"]
  /\ UNCHANGED <<run, stream, sent, object>>

\* return BackupError.Wrap(group.Wait()): the goroutine's return value is
\* CloseWithError's, which is always nil.
GroupWait ==
  /\ phase = "wait"
  /\ stream[run] \in {"closed", "failed"}
  /\ phase' = "sleep"
  /\ result' = [result EXCEPT ![run] = "ok"]
  /\ UNCHANGED <<run, stream, sent, object>>

Next ==
  \/ StartRunOnce
  \/ \E r \in Runs : ProduceChunk(r) \/ StreamReturns(r)
  \/ PipeTransfer
  \/ UploadEOF
  \/ UploadFails
  \/ GroupWait

(* Goroutines are scheduled (weak fairness on each), data moves through a  *)
(* pipe whose both ends are live, and PutObject returns once it has read   *)
(* EOF or an error.  A failure of the object store is possible, never      *)
(* certain, so UploadFails has no fairness.                                *)
Fairness ==
  /\ \A r \in Runs : WF_vars(ProduceChunk(r)) /\ WF_vars(StreamReturns(r))
  /\ WF_vars(PipeTransfer)
  /\ WF_vars(UploadEOF)
  /\ WF_vars(phase = "upload" /\ stream[run] = "failed" /\ UploadFails)
  /\ WF_vars(GroupWait)

Spec == Init /\ [][Next]_vars /\ Fairness

-----------------------------------------------------------------------------
TypeOK ==
  /\ run \in 0..MaxRuns
  /\ phase \in {"sleep", "upload", "wait"}
  /\ stream \in [Runs -> StreamStates]
  /\ sent \in [Runs -> 0..Chunks]
  /\ result \in [Runs -> {"none", "ok", "err"}]
  /\ object \in [Runs -> {"none", "complete", "partial"}]

(***************************************************************************)
(* A backup RunOnce reports as successful holds the whole snapshot: the    *)
(* stream ended without error and every chunk reached the object store.    *)
(* A stream error must surface through the pipe, since the goroutine's     *)
(* own return value is discarded.                                          *)
(***************************************************************************)
SuccessMeansCompleteBackup ==
  \A r \in Runs :
    result[r] = "ok" => object[r] = "complete" /\ stream[r] = "closed"

(***************************************************************************)
(* Spec 4.8: concurrent backups are forbidden; at most one snapshot stream *)
(* (holding a badger read snapshot) is open at a time.                     *)
(***************************************************************************)
NoConcurrentBackupStreams ==
  Cardinality({r \in Runs : stream[r] \in Running}) <= 1

(***************************************************************************)
(* RunOnce implements the backup job of BackupJob.tla, the promise of spec *)
(* 4.8: with the pipe and the stream goroutine hidden, runs are one after  *)
(* the other, a run returns nil exactly when the whole snapshot is stored  *)
(* as its object (never a partial one), a failed run stores none, and     *)
(* every run the cycle starts returns.  A run is in progress while the     *)
(* cycle's goroutine is inside RunOnce.                                    *)
(***************************************************************************)
Job == INSTANCE BackupJob WITH busy <- phase # "sleep"

RunOnceImplementsJob == Job!JobSpec

=============================================================================

# TLA+ models of gateway-mt

This directory holds TLA+ models of the parts of gateway-mt whose behaviour
depends on the order in which concurrent things happen. The covered parts are:

- the replicated credential store ("badgerauth") with its admin RPCs and backup;
- the process lifecycle of the three services: authservice, the S3 gateway and
  linksharing;
- the gateway's request chain: CollectEvent, the minio handler wrapper and
  the HTTP response wrapper that reports status metrics;
- linksharing's object ranger;
- the gateway's early command-line scan.

Each module translates the Go source under `src/` into TLA+. The code of the
credential store that is not under `src/` (clock, log, replication, merge) is
modelled from `spec.md`. `PROJECT.json` lists every mapping from definition to
source lines. It also lists every run, every mutant, every finding and every
hazard.

## The system and how its parts interact

| Part | Source | State | Concurrency |
|------|--------|-------|-------------|
| Admin RPCs | `pkg/auth/badgerauth/admin.go` 33-87 | records, log, clock of one node | RPC handlers on any node, concurrent with replication |
| Store: clock, log, replication, merge | spec 4.2-4.6 | per node: clock, log entries, HighWater per peer, records | one replication worker per peer, pulling the peer's own entries in clock order |
| Backup | `admin.go` 88-183 (backup.go) | io.Pipe, stream goroutine, upload, object | a sync2.Cycle; per run one stream goroutine plus the uploading caller |
| `auth.OpenKV` | `admin.go` 206-242 | which KV is open | called from the authservice command |
| authservice command | `unnamed/part_000` | migration KV, its Run goroutine, contexts, peer | errgroup in cmdMigrationRun, signal handling |
| gateway command | `unnamed/part_001` | peer, Close and Run goroutines, context | errgroup of two goroutines, signal handling |
| linksharing command and Peer | `unnamed/part_002`, `pkg/linksharing/peer.go` 42-100 | same as the gateway, plus the geolocation DB | same as the gateway |
| flusherDelegator | `unnamed/part_003` | status, wroteHeader, TTFB flag, written bytes | one handler goroutine; Flush has a value receiver |
| CollectEvent | `pkg/linksharing/peer.go` 690-719 (middleware part) | a span | the request's goroutine |
| minio objectAPIHandlersWrapper | `pkg/linksharing/peer.go` 104-668 (minio part) | a span per method | the request's goroutine; the minio handler may panic |
| ObjectRanger | `pkg/linksharing/objectranger/ranger.go` | the stat'ed object | the request's goroutine, racing uploads under the same key |

How the parts connect:

- The gateway and linksharing resolve credentials through the auth service.
  That is an HTTP dependency with no shared state, so it is not modelled.
- A gateway request passes CollectEvent, the metrics middleware's
  flusherDelegator and an objectAPIHandlersWrapper method. The method
  answers itself or hands the request to minio. All of these write to the
  same ResponseWriter, and CollectEvent and the method each start a span
  and end it in a deferred call.
- linksharing serves an object through an ObjectRanger built from a stat of
  the key. Other clients may upload under that key at any time.
- Inside the auth service, admin RPCs and resolver Puts write through the log.
  Replication workers apply other nodes' entries. The backup cycle streams a
  snapshot of the same badger handle.

## Modules

- **BadgerAuth.tla** (MC: `MCBadgerAuth.tla`)
  - Constants: `Node` (naturals, so that (Clock, NodeID) is ordered), `Key`,
    `Reason`, `MaxClock`.
  - Variables:
    - `clock[n]`: `m/clock`;
    - `logs[n]`: the log entries n stores;
    - `highWater[n][p]`;
    - `records[n][k]`.
  - Actions:
    - `Put`: the resolver's first-writer Put.
    - `InvalidateRecord`, `UnpublishRecord`, `DeleteRecord`: `admin.go`. Each
      keeps the handler's guards (empty reason → InvalidArgument; record
      present) and its closure's local mutation. It appends the entry in the
      same batch through `Append`.
    - `Replicate(n, p)`: one pull of p's next own entry, applied with `Apply`.
      Apply is the spec 4.5 `Merge`, the log insert and the HighWater update,
      done in one batch.
- **Backup.tla** (MC: `MCBackup.tla`)
  - `RunOnce` as the steps of its two goroutines over a synchronous `io.Pipe`:
    - `StartRunOnce`;
    - `ProduceChunk`, `PipeTransfer`;
    - `StreamReturns`, which does `w.CloseWithError(err)`;
    - `UploadEOF` or `UploadFails`;
    - `GroupWait`.
  - Constants: `Chunks` (pipe writes per snapshot) and `MaxRuns` (cycle
    iterations).
- **BackupJob.tla**: the abstract backup job of spec 4.8.
  - Runs happen one at a time.
  - A run stores a complete object and returns nil, or returns an error and
    stores nothing.
  - Every run returns.
  - `Backup.tla` instantiates it with `busy <- phase # "sleep"`; the other
    variables map by name. `RunOnceImplementsJob` is the refinement.
- **FlusherDelegator.tla** (MC: `MCFlusherDelegator.tla`)
  - Actions: `WriteHeader`, `Write(len, n)` (a short write has n < len) and
    `Flush`.
  - `Flush` works on a copy of the struct (value receiver), so its field
    updates are lost.
  - The wrapped writer follows net/http: the first header wins, and Write and
    Flush send 200.
  - `LegalCaller` restricts handlers to WriteHeader at most once and first.
- **GatewayRequest.tla** (MC: `MCGatewayRequest.tla`): one request through
  the chain. It instantiates `FlusherDelegator` as `F` (with `LegalCaller`
  FALSE), so the ResponseWriter calls come from the code's handlers rather
  than from an assumption.
  - `CollectEvent` and `CollectEventReturn`: its span and the deferred End.
  - `WrapperEnter` and `WrapperReturn`: the prologue and the deferred
    `span.End()` that every wrapper method shares.
  - `Delegate` and `DelegatePanics`: the minio handler's calls, its return,
    or a panic. minio is outside the repository, so its handlers are taken
    to write the header at most once and first.
  - `ResponseHeader`, `ResponseBody`, `ResponseFlush`: minio's
    writeResponse, used by `GetBucketCors` (200, the XML) and
    `NotImplemented` (501).
  - The spans are kept as the set of spans started and not ended. No
    property is stated on them: that the deferred Ends run, in reverse
    order, on the panic path too, is what Go's `defer` guarantees, and the
    parent of each span (the code's real weakness, see Hazards) is not
    represented.
- **ObjectRanger.tla** (MC: `MCObjectRanger.tla`)
  - Definitions: `New`, `Size`, and the `Range` action.
  - Around them, the steps outside the ranger: the request's `Stat` and
    `ServeContent` (which picks a range inside `Size()`), and concurrent
    `Upload`s.
  - Objects are version and size; a byte is a pair of version and position.
- **ServeMain.tla** (MC: `MCServeMain.tla`): cmdRun of the gateway and of
  linksharing, with the linksharing Peer.
  - Configuration: `service` and `geoDB` (runCfg) are chosen in `Init`.
  - The main goroutine:
    - `Setup(i)`: InitMetrics, initTracer, initMeter, then the gateway's
      parameter checks. Two helpers give the outcomes: `StepError(i)` is an
      error return, and `InitMeter` is either log.Fatal or
      `go serveMetrics`;
    - `NewPeer`;
    - `StartGroup`;
    - `GroupWait`.
  - The group goroutines:
    - `CloseOnDone`, which calls `PeerClose`;
    - `RunStops` and `RunFails`.
  - The environment: `Signal` and `MetricsFail`.
- **AuthMain.tla** (MC: `MCAuthMain.tla`): authservice's cmdRun and
  cmdMigrationRun.
  - Configuration: `migration` (runCfg.Migration) and `migratable` (whether
    the KV has MigrateToLatest) are chosen in `Init`.
  - Migration actions:
    - `MigrationStart`, which calls OpenKV;
    - `Migrate`: the type assertion, MigrateToLatest, cancel;
    - `KVRunStops`, `KVRunFails`;
    - `MigWait`.
  - `MigrationDefers` runs the deferred calls in LIFO order: Close, then
    cancel.
  - Service actions: `Setup`, `NewPeer`, `PeerRun` (with the deferred
    p.Close).
  - Environment actions: `Signal`, `MetricsFail`.
- **GatewayUsage.tla** (MC: `MCGatewayUsage.tla`)
  - `FindFrom` is `findBoolFlagEarly` as a RECURSIVE operator over the
    arguments.
  - An argument is abstracted to the prefix tests it passes, so the argument
    alphabet is seven strings.
  - `ParsedAdvanced` is the reference: what the flag parser gives
    `--advanced` (last use wins; ParseBool values; exact name). It keeps the
    code's own convention that `--advanced false` means false.
  - `Init` enumerates every command line up to `MaxArgs`. `SetUsageFunc` runs
    the scan.
  - Outside the single, exact use that the passing run covers, the scan and
    the parser disagree:
    - `--advanced=0` and `--advanced-x` are read as true;
    - with a repeated flag, the first use wins;
    - `--advanced=true false` is read as false.
  - This affects only which flags `--help` lists.

## Runs

Passing runs:

| Run | Module / cfg | Checks | Result |
|-----|--------------|--------|--------|
| badgerauth_core | MCBadgerAuth / MCBadgerAuth.cfg | TypeOK, ViewConvergence, InvalidationHonoured, Converges | pass, 490115 states, ~75 s |
| backup_runonce | MCBackup / MCBackup.cfg | SuccessMeansCompleteBackup, RunOnceImplementsJob (refinement) | pass, 4759 states |
| gateway_request | MCGatewayRequest / MCGatewayRequest.cfg | ReportedStatusIsSent | pass, 1112 states |
| serve_shutdown | MCServeMain / MCServeMain.cfg | PeerReleasedOnReturn, ShutdownOnSignal | pass, 125 states |
| auth_startup | MCAuthMain / MCAuthMain.cfg | MigratedBeforeServing, MigrationReturns | pass, 122 states |
| usage_single_flag | MCGatewayUsage / MCGatewayUsage.cfg | EarlyScanAgreesOnSingleUse | pass, 39216 states |

Violation runs:

| Run | Module / cfg | Checks | What TLC finds |
|-----|--------------|--------|----------------|
| badgerauth_reason | MCBadgerAuth / MCBadgerAuthReason.cfg | RecordConvergence | InvalidateRecord overwrites locally; replicas that applied the same entries keep different reasons |
| backup_leak | MCBackup / MCBackupLeak.cfg | NoConcurrentBackupStreams | a failed upload leaves the stream goroutine running, its next write blocked forever; the next cycle opens a second snapshot stream |
| flusher_header_once | MCFlusherDelegator / MCFlusherDelegatorOnce.cfg | HeaderReportedOnce | Flush then Write reports the header twice |
| ranger_stale | MCObjectRanger / MCObjectRangerStale.cfg | ServedObjectIsStatted | an upload between the stat and Range serves the new object's bytes under the old object's size |
| serve_hang | MCServeMain / MCServeMainHang.cfg | ExitsAfterRunFails | when peer.Run fails, the Close goroutine waits on ctx.Done forever and cmdRun never returns |
| auth_migration_close | MCAuthMain / MCAuthMainClose.cfg | KVClosedAfterRun | on cmdMigrationRun's error returns, the deferred kv.Close runs while kv.Run is running |

Each property of a passing run has a mutant in its module: a named operator
with a plausible bug, defined just before the definition it replaces. TLC
finds the property violated when the mutant replaces that definition.

## Bounds and why they are enough

- **BadgerAuth**
  - Bounds: three nodes, one key, one reason (the violation run uses two
    nodes and two reasons), `MaxClock = 2`.
  - With two writes per node there are up to six entries per key. That covers
    Put, an admin entry arriving before the Put at a third node, two
    invalidations with different (Clock, NodeID), and a tombstone.
  - Two reasons with three nodes take over 8 minutes, so reasons are
    exercised in the two-node violation run.
- **Backup**
  - Bounds: `Chunks = 3`, `MaxRuns = 3` (4759 states, about a second).
  - A stream can fail before, between or after its writes.
  - A third run can start while the stream goroutines of two failed runs
    are still blocked.
- **FlusherDelegator / GatewayRequest**
  - Bounds: five handler calls, writes of 0-2 bytes, codes {200, 404} (and
    501 for NotImplemented).
  - These cover every order of WriteHeader, Write and Flush up to the
    repetitions that matter.
- **ObjectRanger**
  - Bounds: objects of 1 or 2 bytes, one upload after the first object.
  - That covers a replacement of the same size, a longer one and a shorter
    one.
- **ServeMain / AuthMain**
  - These are finite as they stand. Every configuration is explored at once.
- **GatewayUsage**
  - Bound: up to five arguments (19608 command lines, each checked in one state
    and its successor: 39216 states, under a second).
  - That is enough for a flag with its separate value, a second use with a
    value, and another argument before, between or after them.

## Fairness

- **Weak fairness** goes on the steps of goroutines the code starts and never
  blocks indefinitely:
  - the replication workers, one per peer, on a fixed interval;
  - the stream goroutine and PutObject reading a live pipe;
  - the main goroutine's next statement;
  - the errgroup goroutines.
- **No fairness** goes on what the environment may or may not do:
  - signals;
  - server, stream, upload, metrics-listener and kv.Run failures;
  - admin and resolver requests.
- The liveness properties therefore hold for every schedule the Go runtime
  can produce and every choice of failures.
- `BackupJob` promises only that a started run returns
  (`WF_jobVars(FinishRun)`). Backup implements it under the weak fairness of
  its stream goroutine and upload, whatever the failures.
- GatewayRequest has no liveness property and no fairness. A finished request is not deadlock, so gateway_request sets
  `CHECK_DEADLOCK FALSE`.
- ObjectRanger has no liveness property either.

## Refinement

`Backup.tla` defines `Job == INSTANCE BackupJob WITH busy <- phase # "sleep"`.
The property `RunOnceImplementsJob == Job!JobSpec` is checked in
backup_runonce. It says four things:

- a cycle iteration is one run;
- a run's object becomes complete in one step, at the upload's EOF;
- RunOnce returns nil exactly then;
- every run returns.

The mutant `UploadFailsThenWait` leaves the caller waiting after a failed
upload. TLC then finds the abstract weak fairness violated.

## Hazards and findings

`PROJECT.json` lists the hazards, each at its source line with the
properties that cover it. It also lists the six findings behind the
violation runs, among them:

- the errgroup hang in the gateway and linksharing;
- Close before cancel in the migration;
- the object ranger, which takes Size from the stat'ed object but downloads
  whatever object the key names at Range time.

13 of the 24 hazards have no property. Each one's note in `PROJECT.json` says
why. Two of them are about trace parenting, which the models do not
represent:

- objectAPIHandlersWrapper discards the context of the span it starts, so
  the inner spans are not its children.
- CollectEvent starts its span on `context.Background()`.

Two more hazards without a property depend on code outside the
repository:

- peer.Close closes the geolocation database once Server.Shutdown returns.
  Whether handlers that still run can read it depends on httpserver's
  Shutdown.
- flusherDelegator.Flush asserts http.Flusher without the ok form. That
  is safe only while the wrapped writer is a Flusher.

`FlusherDelegator.Write` reports time-to-first-byte even when the write
writes nothing. That is only a metric's timing, so no run checks it.

## Not modelled, and why

- Not under `src/`, so not modelled:
  - signatures and the roster;
  - TTL expiry and GC;
  - log retention;
  - snapshot catch-up;
  - crash and restart of the store.
- Crash and restart is left out because batches are atomic in badger, and
  the model treats each write and Apply as one batch.
- Inside the minio wrapper, CollectEvent and objectranger, only the span
  and ResponseWriter control is modelled. User-agent parsing, access-grant
  parsing, the CORS XML and the event attributes are formatting, and none
  of them changes control flow.
- The delegated minio handlers are outside the repository. Only the calls
  they make on the ResponseWriter are modelled.
- cmdSetup and cmdRegister are one-shot file and HTTP I/O.
- updateRecord as a transaction split into its read and its commit is not
  modelled, though it was measured. Splitting it on the three-node
  configuration gives 1,388,411 states and takes 2.5 minutes, beyond what
  a mutant run of the store may take. The admin RPCs therefore stay one
  engine transaction each, as spec section 5 states.
- The store's log integrity (spec invariants 3 and 4: gap-free own logs,
  stored prefixes up to HighWater) is not checked. In the model Append and
  Apply write the entry, the clock or HighWater and the record in one step,
  so it would hold by construction, and the code that could break it is not
  under `src/`.
- HTTP request handlers are not modelled in ServeMain. The httpserver and
  sharing packages that run them are outside the repository.
- Telemetry exporter configuration is library setup. Only its success or
  failure is modelled.

## Plan for later work

1. Model more of the store from the spec:
   - TTL expiry and the maintenance GC, whose TTL GC writes no log entries;
   - log retention against HighWater;
   - signature rejection, which does not advance HighWater.
2. Compose Backup with BadgerAuth writes: a backup taken during writes.
3. Compose ObjectRanger with an upload that is not yet committed, together
   with the Range-header bounds of ServeContent.
4. Write an abstract key/value register specification. Show BadgerAuth's
   per-node view refines it once replication has quiesced (INSTANCE with a
   refinement mapping).

------------------------------- MODULE AuthMain -------------------------------
(***************************************************************************)
(* cmdRun and cmdMigrationRun of the auth service (src/unnamed/part_000),  *)
(* with auth.OpenKV (src/pkg/auth/badgerauth/admin.go, the OpenKV part).   *)
(*                                                                         *)
(* With runCfg.Migration set, cmdRun first runs cmdMigrationRun: it opens  *)
(* the KV, defers kv.Close(), starts kv.Run(migrationCtx) in an errgroup,  *)
(* type-asserts the KV to a migrator and runs MigrateToLatest, then        *)
(* cancel()s migrationCtx and returns g.Wait().  Deferred calls run last   *)
(* in, first out: kv.Close() before the deferred cancel().  cmdRun then    *)
(* initialises telemetry, builds the auth peer (which opens the KV again), *)
(* defers p.Close() and returns p.Run(ctx).                                *)
(*                                                                         *)
(* kv.Run returns when its context is cancelled, or with an error.  Which  *)
(* backends implement MigrateToLatest is decided outside this repository,  *)
(* so it is part of the configuration.                                     *)
(***************************************************************************)
EXTENDS Naturals

VARIABLES
  migration,  \* runCfg.Migration
  migratable, \* the KV OpenKV returns has a MigrateToLatest method
  pc,         \* "start" | "migrate" | "migWait" | "initMetrics" | "initTracer"
              \* | "initMeter" | "new" | "run" | "returned" | "fatal"
  result,     \* what cmdRun returned: "none" | "ok" | "err"
  ctxDone,    \* process.Ctx's context is cancelled (a signal)
  migCtx,     \* migrationCtx is cancelled
  kv,         \* the migration KV: "none" | "open" | "closed"
  kvRun,      \* kv.Run goroutine: "idle" | "running" | "done" | "failed"
  peer,       \* the auth peer: "none" | "open" | "closed"
  metrics     \* the serveMetrics goroutine: "none" | "serving" | "failed"

vars == <<migration, migratable, pc, result, ctxDone, migCtx, kv, kvRun, peer,
          metrics>>

config == <<migration, migratable>>

Exited == {"returned", "fatal"}

-----------------------------------------------------------------------------
Init ==
  /\ migration \in BOOLEAN
  /\ migratable \in BOOLEAN
  /\ pc = "start"
  /\ result = "none"
  /\ ctxDone = FALSE
  /\ migCtx = FALSE
  /\ kv = "none"
  /\ kvRun = "idle"
  /\ peer = "none"
  /\ metrics = "none"

\* cmdRun returns res; its process.Ctx cancel func is discarded, so
\* nothing is cancelled.
Return(res) ==
  /\ pc' = "returned"
  /\ result' = res

\* cmdMigrationRun's deferred calls, last in first out: kv.Close(), then
\* cancel() of migrationCtx.
MigrationDefers ==
  /\ kv' = "closed"
  /\ migCtx' = TRUE

\* auth.OpenKV: the KV is open, or an error leaves none (SplitConnStr,
\* sqlauth.Open, badgerauth.New, the migration source's sqlauth.Open, an
\* unknown scheme).
OpenKV == {"none", "open"}

\* cmdRun: cmdMigrationRun if runCfg.Migration, up to g.Go(kv.Run); an
\* OpenKV error is returned by cmdRun.
MigrationStart ==
  /\ pc = "start"
  /\ \/ ~migration /\ pc' = "initMetrics" /\ UNCHANGED <<result, kv, kvRun>>
     \/ /\ migration
        /\ kv' \in OpenKV
        /\ IF kv' = "open"
             THEN kvRun' = "running" /\ pc' = "migrate" /\ UNCHANGED result
             ELSE Return("err") /\ UNCHANGED kvRun
  /\ UNCHANGED <<config, ctxDone, migCtx, peer, metrics>>

\* Mutation: the successful migration returns g.Wait() without cancel().
MigrateWithoutCancel ==
  /\ pc = "migrate"
  /\ \/ MigrationDefers /\ Return("err")
     \/ migratable /\ pc' = "migWait" /\ UNCHANGED <<result, migCtx, kv>>
  /\ UNCHANGED <<config, ctxDone, kvRun, peer, metrics>>

\* The type assertion to a migrator fails, or MigrateToLatest returns an
\* error: cmdMigrationRun returns at once through its deferred calls.
\* Otherwise cancel() and on to g.Wait().
Migrate ==
  /\ pc = "migrate"
  /\ \/ MigrationDefers /\ Return("err")
     \/ /\ migratable
        /\ migCtx' = TRUE
        /\ pc' = "migWait"
        /\ UNCHANGED <<result, kv>>
  /\ UNCHANGED <<config, ctxDone, kvRun, peer, metrics>>

\* kv.Run(migrationCtx) returns once migrationCtx (or its parent, on a
\* signal) is cancelled.
KVRunStops ==
  /\ kvRun = "running"
  /\ migCtx \/ ctxDone
  /\ kvRun' = "done"
  /\ UNCHANGED <<config, pc, result, ctxDone, migCtx, kv, peer, metrics>>

\* kv.Run returns an error of its own.
KVRunFails ==
  /\ kvRun = "running"
  /\ kvRun' = "failed"
  /\ UNCHANGED <<config, pc, result, ctxDone, migCtx, kv, peer, metrics>>

\* Mutation: cmdMigrationRun returns without waiting for the group.
MigWaitNoWait ==
  /\ pc = "migWait"
  /\ MigrationDefers
  /\ pc' = "initMetrics"
  /\ UNCHANGED <<config, result, ctxDone, kvRun, peer, metrics>>

\* return g.Wait(), then the deferred calls; an error of kv.Run (other
\* than cancellation) or of kv.Close makes cmdRun return it.
MigWait ==
  /\ pc = "migWait"
  /\ kvRun \in {"done", "failed"}
  /\ MigrationDefers
  /\ \E closeErr \in BOOLEAN :
       IF kvRun = "failed" \/ closeErr
         THEN Return("err")
         ELSE pc' = "initMetrics" /\ UNCHANGED result
  /\ UNCHANGED <<config, ctxDone, kvRun, peer, metrics>>

\* The telemetry steps of cmdRun, each followed by the next.
SetupNext == [initMetrics |-> "initTracer", initTracer |-> "initMeter",
              initMeter |-> "new"]

\* InitMetricsWithHostname and initTracer return an error or succeed;
\* initMeter log.Fatal's (exit without deferred calls) or starts
\* serveMetrics.
Setup ==
  /\ pc \in DOMAIN SetupNext
  /\ \/ pc # "initMeter" /\ Return("err") /\ UNCHANGED metrics
     \/ pc = "initMeter" /\ pc' = "fatal" /\ UNCHANGED <<result, metrics>>
     \/ /\ pc' = SetupNext[pc]
        /\ metrics' = IF pc = "initMeter" THEN "serving" ELSE metrics
        /\ UNCHANGED result
  /\ UNCHANGED <<config, ctxDone, migCtx, kv, kvRun, peer>>

\* serveMetrics: http.ListenAndServe(":9153") fails (the port is taken);
\* the error is printed and the goroutine returns.
MetricsFail ==
  /\ metrics = "serving"
  /\ metrics' = "failed"
  /\ UNCHANGED <<config, pc, result, ctxDone, migCtx, kv, kvRun, peer>>

\* auth.New fails, or the peer is built and p.Close() deferred.
NewPeer ==
  /\ pc = "new"
  /\ \/ Return("err") /\ UNCHANGED peer
     \/ peer' = "open" /\ pc' = "run" /\ UNCHANGED result
  /\ UNCHANGED <<config, ctxDone, migCtx, kv, kvRun, metrics>>

\* p.Run(ctx) returns, on a signal (a cancellation, ignored) or with an
\* error; the deferred p.Close() runs and its error is combined in.
PeerRun ==
  /\ pc = "run"
  /\ \/ ctxDone /\ \E res \in {"ok", "err"} : Return(res)
     \/ Return("err")
  /\ peer' = "closed"
  /\ UNCHANGED <<config, ctxDone, migCtx, kv, kvRun, metrics>>

\* SIGINT or SIGTERM cancels process.Ctx's contexts.
Signal ==
  /\ pc \notin Exited
  /\ ~ctxDone
  /\ ctxDone' = TRUE
  /\ UNCHANGED <<config, pc, result, migCtx, kv, kvRun, peer, metrics>>

Next ==
  \/ MigrationStart \/ Migrate \/ KVRunStops \/ KVRunFails \/ MigWait
  \/ Setup \/ MetricsFail \/ NewPeer \/ PeerRun \/ Signal

(* The main goroutine and kv.Run's goroutine are scheduled; signals and   *)
(* failures of kv.Run or of the metrics listener may or may not happen.    *)
Fairness ==
  /\ WF_vars(MigrationStart) /\ WF_vars(Migrate) /\ WF_vars(KVRunStops)
  /\ WF_vars(MigWait) /\ WF_vars(Setup) /\ WF_vars(NewPeer)

Spec == Init /\ [][Next]_vars /\ Fairness

-----------------------------------------------------------------------------
TypeOK ==
  /\ migration \in BOOLEAN /\ migratable \in BOOLEAN
  /\ pc \in {"start", "migrate", "migWait", "initMetrics", "initTracer",
             "initMeter", "new", "run"} \cup Exited
  /\ result \in {"none", "ok", "err"}
  /\ ctxDone \in BOOLEAN /\ migCtx \in BOOLEAN
  /\ kv \in {"none", "open", "closed"}
  /\ kvRun \in {"idle", "running", "done", "failed"}
  /\ peer \in {"none", "open", "closed"}
  /\ metrics \in {"none", "serving", "failed"}

(***************************************************************************)
(* The auth peer opens the database only after the migration is over: its *)
(* KV closed and kv.Run returned (badger allows one open handle per        *)
(* directory, spec section 5).                                             *)
(***************************************************************************)
MigratedBeforeServing ==
  migration /\ peer # "none" => kv = "closed" /\ kvRun \in {"done", "failed"}

(***************************************************************************)
(* cmdMigrationRun returns once MigrateToLatest has run: cancel() stops    *)
(* kv.Run, so g.Wait() does not block, with or without a signal.           *)
(***************************************************************************)
MigrationReturns == (pc = "migrate") ~> (pc \notin {"migrate", "migWait"})

(***************************************************************************)
(* The success path cancels migrationCtx and waits for kv.Run before the   *)
(* deferred kv.Close: the KV is never closed while kv.Run still uses it.   *)
(***************************************************************************)
KVClosedAfterRun == kv = "closed" => kvRun # "running"

=============================================================================

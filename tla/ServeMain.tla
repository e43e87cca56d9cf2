------------------------------ MODULE ServeMain ------------------------------
(***************************************************************************)
(* cmdRun of the gateway (src/unnamed/part_001) and of linksharing         *)
(* (src/unnamed/part_002), with the linksharing Peer's New, Run and Close  *)
(* (src/pkg/linksharing/peer.go).  Both commands initialise telemetry,     *)
(* build a peer and then run two goroutines in an errgroup.Group:          *)
(*   one waits for <-ctx.Done() and calls peer.Close();                    *)
(*   one calls peer.Run(ctx);                                              *)
(* and return g.Wait().  ctx is process.Ctx's context, cancelled by an     *)
(* interrupt signal or by the deferred cancel() when cmdRun returns.       *)
(*                                                                         *)
(* The HTTP server's Run (httpserver, not in this repository) is taken to  *)
(* return once Shutdown has been called, or with an error (a failed        *)
(* listener or TLS setup) at any time.  An errgroup.Group made without     *)
(* WithContext does not cancel anything when a goroutine fails.            *)
(***************************************************************************)
EXTENDS Naturals, Sequences

CONSTANTS
  Services  \* the commands explored: a subset of {"gateway", "linksharing"}

ASSUME Services \subseteq {"gateway", "linksharing"} /\ Services # {}

VARIABLES
  service,  \* the command: "gateway" | "linksharing"
  geoDB,    \* linksharing's runCfg.GeoLocationDB is set
  pc,       \* cmdRun: a SetupSteps element | "new" | "group" | "wait"
            \*        | "returned" | "fatal"
  result,   \* what cmdRun returned: "none" | "ok" | "err"
  ctxDone,  \* process.Ctx's context is cancelled
  closer,   \* the Close goroutine: "idle" | "waiting" | "done"
  runner,   \* the Run goroutine: "idle" | "running" | "done" | "failed"
  server,   \* the peer's HTTP server: "none" | "open" | "shut"
  mapper,   \* linksharing's geolocation IPDB: "none" | "open" | "closed"
  metrics   \* the serveMetrics goroutine: "none" | "serving" | "failed"

vars == <<service, geoDB, pc, result, ctxDone, closer, runner, server, mapper, metrics>>

config == <<service, geoDB>>

\* cmdRun's steps before the peer is built, in order.
SetupSteps == <<"initMetrics", "initTracer", "initMeter", "config">>

Exited == {"returned", "fatal"}

-----------------------------------------------------------------------------
\* The configuration is read once, before cmdRun; the gateway has no
\* geolocation database.
Init ==
  /\ service \in Services
  /\ geoDB \in IF service = "gateway" THEN {FALSE} ELSE BOOLEAN
  /\ pc = SetupSteps[1]
  /\ result = "none"
  /\ ctxDone = FALSE
  /\ closer = "idle"
  /\ runner = "idle"
  /\ server = "none"
  /\ mapper = "none"
  /\ metrics = "none"

\* return err from cmdRun: the deferred cancel() cancels ctx.
Return(res) ==
  /\ pc' = "returned"
  /\ result' = res
  /\ ctxDone' = TRUE

\* A setup step returns an error, which cmdRun returns:
\* InitMetricsWithHostname, initTracer (otlptrace.New or resource.New),
\* or (gateway only) the required-parameter check with os.Setenv and
\* Auth.Validate.  initMeter has no error return.
StepError(i) ==
  /\ SetupSteps[i] # "initMeter"
  /\ SetupSteps[i] = "config" => service = "gateway"
  /\ Return("err")
  /\ UNCHANGED metrics

\* initMeter: an exporter failure is log.Fatal, which exits without
\* running deferred calls; otherwise it starts go serveMetrics() and
\* cmdRun goes on to next.
InitMeter(next) ==
  \/ pc' = "fatal" /\ UNCHANGED metrics
  \/ pc' = next /\ metrics' = "serving"

\* The setup step at index i fails or goes on to the next.
Setup(i) ==
  LET next == IF i < Len(SetupSteps) THEN SetupSteps[i + 1] ELSE "new" IN
  /\ pc = SetupSteps[i]
  /\ \/ StepError(i)
     \/ /\ SetupSteps[i] = "initMeter"
        /\ InitMeter(next)
        /\ UNCHANGED <<result, ctxDone>>
     \/ /\ SetupSteps[i] # "initMeter"
        /\ pc' = next
        /\ UNCHANGED <<result, ctxDone, metrics>>
  /\ UNCHANGED <<config, closer, runner, server, mapper>>

\* serveMetrics: http.ListenAndServe(":9153") fails (the port is taken);
\* the error is printed and the goroutine returns.
MetricsFail ==
  /\ metrics = "serving"
  /\ metrics' = "failed"
  /\ UNCHANGED <<config, pc, result, ctxDone, closer, runner, server, mapper>>

\* linksharing.New (gateway: server.New): open the geolocation database if
\* configured, create the handler, create the HTTP server; any failure is
\* returned by cmdRun.  The database opened first is not closed when a
\* later step fails.
NewPeer ==
  /\ pc = "new"
  /\ \/ geoDB /\ Return("err") /\ UNCHANGED <<server, mapper>>
     \/ /\ mapper' = IF geoDB THEN "open" ELSE "none"
        /\ \/ Return("err") /\ UNCHANGED server
           \/ /\ server' = "open"
              /\ pc' = "group"
              /\ UNCHANGED <<result, ctxDone>>
  /\ UNCHANGED <<config, closer, runner, metrics>>

\* var g errgroup.Group; g.Go(close on ctx.Done); g.Go(peer.Run(ctx)).
StartGroup ==
  /\ pc = "group"
  /\ pc' = "wait"
  /\ closer' = "waiting"
  /\ runner' = "running"
  /\ UNCHANGED <<config, result, ctxDone, server, mapper, metrics>>

\* SIGINT or SIGTERM cancels process.Ctx's context.
Signal ==
  /\ pc \notin Exited
  /\ ~ctxDone
  /\ ctxDone' = TRUE
  /\ UNCHANGED <<config, pc, result, closer, runner, server, mapper, metrics>>

\* Mutation: Close shuts the server down and leaves the IPDB open.
PeerCloseServerOnly ==
  /\ server' = IF server = "open" THEN "shut" ELSE server
  /\ UNCHANGED mapper

\* peer.Close: Server.Shutdown if there is a server, Mapper.Close if there
\* is a mapper.
PeerClose ==
  /\ server' = IF server = "open" THEN "shut" ELSE server
  /\ mapper' = IF mapper = "open" THEN "closed" ELSE mapper

\* Mutation: the goroutine returns on ctx.Done() without calling Close.
CloseOnDoneWithoutClose ==
  /\ closer = "waiting"
  /\ ctxDone
  /\ closer' = "done"
  /\ UNCHANGED <<config, pc, result, ctxDone, runner, server, mapper, metrics>>

\* The first goroutine: <-ctx.Done(); return peer.Close().
CloseOnDone ==
  /\ closer = "waiting"
  /\ ctxDone
  /\ closer' = "done"
  /\ PeerClose
  /\ UNCHANGED <<config, pc, result, ctxDone, runner, metrics>>

\* The second goroutine: peer.Run(ctx) returns once the server is shut
\* down.
RunStops ==
  /\ runner = "running"
  /\ server = "shut"
  /\ runner' = "done"
  /\ UNCHANGED <<config, pc, result, ctxDone, closer, server, mapper, metrics>>

\* peer.Run(ctx) returns an error while the server is still open.
RunFails ==
  /\ runner = "running"
  /\ server = "open"
  /\ runner' = "failed"
  /\ UNCHANGED <<config, pc, result, ctxDone, closer, server, mapper, metrics>>

\* return g.Wait(): once both goroutines have returned, with the first
\* error one of them returned (cancellation errors are ignored).
GroupWait ==
  /\ pc = "wait"
  /\ closer = "done"
  /\ runner \in {"done", "failed"}
  /\ Return(IF runner = "failed" THEN "err" ELSE "ok")
  /\ UNCHANGED <<config, closer, runner, server, mapper, metrics>>

Next ==
  \/ \E i \in 1..Len(SetupSteps) : Setup(i)
  \/ MetricsFail \/ NewPeer \/ StartGroup \/ Signal
  \/ CloseOnDone \/ RunStops \/ RunFails \/ GroupWait

(* The main goroutine and the two group goroutines are scheduled (weak     *)
(* fairness).  A signal and a server failure may or may not happen, so     *)
(* Signal, RunFails and MetricsFail have none.                             *)
Fairness ==
  /\ \A i \in 1..Len(SetupSteps) : WF_vars(Setup(i))
  /\ WF_vars(NewPeer) /\ WF_vars(StartGroup)
  /\ WF_vars(CloseOnDone) /\ WF_vars(RunStops) /\ WF_vars(GroupWait)

Spec == Init /\ [][Next]_vars /\ Fairness

-----------------------------------------------------------------------------
TypeOK ==
  /\ pc \in {SetupSteps[i] : i \in 1..Len(SetupSteps)}
            \cup {"new", "group", "wait"} \cup Exited
  /\ result \in {"none", "ok", "err"}
  /\ ctxDone \in BOOLEAN
  /\ closer \in {"idle", "waiting", "done"}
  /\ service \in Services
  /\ geoDB \in BOOLEAN
  /\ runner \in {"idle", "running", "done", "failed"}
  /\ server \in {"none", "open", "shut"}
  /\ mapper \in {"none", "open", "closed"}
  /\ metrics \in {"none", "serving", "failed"}

(***************************************************************************)
(* When cmdRun returns after running the peer, peer.Close has released     *)
(* everything New acquired: the server is shut down and the geolocation    *)
(* database is closed.                                                     *)
(***************************************************************************)
PeerReleasedOnReturn ==
  pc = "returned" /\ runner # "idle" => server = "shut" /\ mapper # "open"

(***************************************************************************)
(* After an interrupt signal cmdRun returns, so the process exits: the     *)
(* Close goroutine shuts the server down and that ends peer.Run.           *)
(***************************************************************************)
ShutdownOnSignal == ctxDone ~> (pc \in Exited)

(***************************************************************************)
(* cmdRun returns g.Wait() so that a failure of peer.Run ends the process  *)
(* with that error: once Run has returned, cmdRun eventually returns.      *)
(***************************************************************************)
ExitsAfterRunFails == (runner = "failed") ~> (pc \in Exited)

=============================================================================

---------------------------- MODULE GatewayRequest ----------------------------
(***************************************************************************)
(* One S3 request through the gateway's handler chain, composing:          *)
(*  - middleware.CollectEvent (src/pkg/linksharing/peer.go, the middleware *)
(*    part): it starts a span from context.Background(), records the "gmt" *)
(*    event, calls next.ServeHTTP and ends the span in a deferred call;    *)
(*  - the minio objectAPIHandlersWrapper methods (the same file, minio     *)
(*    part): each starts a span, defers span.End(), and then delegates to  *)
(*    the minio handler, or answers GetBucketCors itself, or answers       *)
(*    PutBucketCors and DeleteBucketCors with NotImplemented;              *)
(*  - the flusherDelegator (FlusherDelegator.tla) that the metrics         *)
(*    middleware wraps around the ResponseWriter.                          *)
(*                                                                         *)
(* The two answers made in the wrapper go through minio's writeResponse:   *)
(* WriteHeader(code), Write(body), Flush.  A delegated minio handler is    *)
(* outside this repository.  It is taken to write the header at most once *)
(* and first, as writeResponse does, and may panic, which net/http         *)
(* recovers after the deferred calls have run.  The request runs on one    *)
(* goroutine.                                                              *)
(***************************************************************************)
EXTENDS Naturals

CONSTANTS
  Codes,     \* status codes the delegated minio handlers write
  MaxCalls,  \* bound on the ResponseWriter calls of one request
  MaxLen     \* longest body write; the answers of the wrapper write MaxLen

VARIABLES
  status, wroteHeader, observedTTFB, written, sentStatus, headerReports,
  ttfbReports, calls,   \* the flusherDelegator and the wrapped writer
  route,     \* the wrapper method the router calls:
             \* "delegate" | "getBucketCors" | "notImplemented"
  step,      \* where the request is: "collect" | "enter" | "minio"
             \* | "header" | "body" | "flush" | "unwind" | "served"
  spans,     \* the spans started and not yet ended: a subset of
             \* {"event", "handler"}
  panicked   \* the delegated handler panicked

F == INSTANCE FlusherDelegator WITH LegalCaller <- FALSE

flusherVars == <<status, wroteHeader, observedTTFB, written, sentStatus,
                 headerReports, ttfbReports, calls>>
vars == <<flusherVars, route, step, spans, panicked>>

Routes == {"delegate", "getBucketCors", "notImplemented"}

-----------------------------------------------------------------------------
\* GetBucketCorsHandler: writeSuccessResponseXML of the CORSConfiguration
\* built from corsAllowedOrigins and the fixed methods; the XML is a
\* non-empty body.
GetBucketCors == [code |-> 200, len |-> MaxLen]

\* PutBucketCorsHandler, DeleteBucketCorsHandler: writeErrorResponse of
\* ErrNotImplemented, an XML error body.
NotImplemented == [code |-> 501, len |-> MaxLen]

Answer == IF route = "getBucketCors" THEN GetBucketCors ELSE NotImplemented

Init ==
  /\ F!Init
  /\ route \in Routes
  /\ step = "collect"
  /\ spans = {}
  /\ panicked = FALSE

\* CollectEvent's handler: Start a span on context.Background(), defer its
\* End, parse the user agent and the access grant, AddEvent("gmt", ...),
\* then next.ServeHTTP(w, r).
CollectEvent ==
  /\ step = "collect"
  /\ spans' = spans \cup {"event"}
  /\ step' = "enter"
  /\ UNCHANGED <<flusherVars, route, panicked>>

\* The prologue of every objectAPIHandlersWrapper method: Start a span on
\* r.Context() and defer span.End().
WrapperEnter ==
  /\ step = "enter"
  /\ spans' = spans \cup {"handler"}
  /\ step' = IF route = "delegate" THEN "minio" ELSE "header"
  /\ UNCHANGED <<flusherVars, route, panicked>>

\* A delegating method: the minio handler makes its next ResponseWriter
\* call, returns, or panics.
Delegate ==
  /\ step = "minio"
  /\ \/ calls = 0 /\ \E code \in Codes : F!WriteHeader(code) /\ UNCHANGED step
     \/ \E len \in 0..MaxLen, n \in 0..MaxLen : F!Write(len, n) /\ UNCHANGED step
     \/ F!Flush /\ UNCHANGED step
     \/ step' = "unwind" /\ UNCHANGED flusherVars
  /\ UNCHANGED <<route, spans, panicked>>

\* The minio handler panics; the deferred calls run as the stack unwinds.
DelegatePanics ==
  /\ step = "minio"
  /\ step' = "unwind"
  /\ panicked' = TRUE
  /\ UNCHANGED <<flusherVars, route, spans>>

\* writeResponse(w, code, body): w.WriteHeader(code) ...
ResponseHeader ==
  /\ step = "header"
  /\ F!WriteHeader(Answer.code)
  /\ step' = "body"
  /\ UNCHANGED <<route, spans, panicked>>

\* ... w.Write(body), which a failing connection may cut short ...
ResponseBody ==
  /\ step = "body"
  /\ \E n \in 0..Answer.len : F!Write(Answer.len, n)
  /\ step' = "flush"
  /\ UNCHANGED <<route, spans, panicked>>

\* ... and w.(http.Flusher).Flush(), whatever Write returned.
ResponseFlush ==
  /\ step = "flush"
  /\ F!Flush
  /\ step' = "unwind"
  /\ UNCHANGED <<route, spans, panicked>>

\* The wrapper method returns or unwinds: its deferred span.End(), then
\* CollectEvent's.
WrapperReturn ==
  /\ step = "unwind"
  /\ spans' = spans \ {"handler"}
  /\ step' = "served"
  /\ UNCHANGED <<flusherVars, route, panicked>>

\* CollectEvent's handler returns or unwinds: its deferred span.End().
CollectEventReturn ==
  /\ step = "served"
  /\ "event" \in spans
  /\ spans' = spans \ {"event"}
  /\ UNCHANGED <<flusherVars, route, step, panicked>>

Next ==
  \/ CollectEvent \/ WrapperEnter \/ Delegate \/ DelegatePanics
  \/ ResponseHeader \/ ResponseBody \/ ResponseFlush
  \/ WrapperReturn \/ CollectEventReturn

Spec == Init /\ [][Next]_vars

-----------------------------------------------------------------------------
(***************************************************************************)
(* The metrics agree with the client for every wrapper method: the status  *)
(* reported at header time and at first byte is the status sent, for the   *)
(* answers the wrapper writes itself (WriteHeader, Write and a Flush on    *)
(* the value receiver) and for the delegated handlers.                     *)
(***************************************************************************)
ReportedStatusIsSent == F!ReportedStatusIsSent

=============================================================================

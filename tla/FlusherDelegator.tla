-------------------------- MODULE FlusherDelegator --------------------------
(***************************************************************************)
(* middleware.flusherDelegator (src/unnamed/part_003): an                  *)
(* http.ResponseWriter wrapper that reports the status code to             *)
(* atWriteHeaderFunc when the header is written and to                     *)
(* atTimeToFirstByteFunc when the first bytes are written, and delegates   *)
(* every call to the wrapped net/http ResponseWriter.                      *)
(*                                                                         *)
(* WriteHeader and Write have pointer receivers; Flush has a value         *)
(* receiver, so the WriteHeader it calls updates a copy of the struct.     *)
(* The wrapped writer behaves as net/http's: the first WriteHeader fixes   *)
(* the status sent to the client, later ones are superfluous and ignored,  *)
(* and Write or Flush before any WriteHeader send 200.  A write of len     *)
(* bytes may be short (n <= len, with an error) when the connection fails. *)
(***************************************************************************)
EXTENDS Naturals, Sequences

CONSTANTS
  Codes,       \* status codes a handler passes to WriteHeader
  MaxCalls,    \* bound on the handler's calls on one response
  MaxLen,      \* longest byte slice a handler passes to Write
  LegalCaller  \* TRUE: the handler calls WriteHeader at most once, first

ASSUME 200 \in Codes /\ MaxCalls \in Nat \ {0} /\ MaxLen \in Nat
ASSUME LegalCaller \in BOOLEAN

VARIABLES
  status,        \* f.status
  wroteHeader,   \* f.wroteHeader
  observedTTFB,  \* f.observedTimeToFirstByte
  written,       \* f.written
  sentStatus,    \* status the wrapped ResponseWriter sent (0: header not sent)
  headerReports, \* codes passed to atWriteHeaderFunc, in order
  ttfbReports,   \* codes passed to atTimeToFirstByteFunc, in order
  calls          \* handler calls so far

vars == <<status, wroteHeader, observedTTFB, written, sentStatus, headerReports,
          ttfbReports, calls>>

\* The wrapped net/http ResponseWriter: a header goes out once.
SendHeader(code) == IF sentStatus = 0 THEN code ELSE sentStatus

-----------------------------------------------------------------------------
Init ==
  /\ status = 0
  /\ wroteHeader = FALSE
  /\ observedTTFB = FALSE
  /\ written = 0
  /\ sentStatus = 0
  /\ headerReports = <<>>
  /\ ttfbReports = <<>>
  /\ calls = 0

\* A handler call, under the bound; a legal handler writes the header only
\* as its first call.
HandlerCall(isWriteHeader) ==
  /\ calls < MaxCalls
  /\ calls' = calls + 1
  /\ isWriteHeader /\ LegalCaller => calls = 0

\* Mutation: WriteHeader reports the status field it has not set yet.
WriteHeaderReportsField(wh, code) ==
  IF ~wh THEN Append(headerReports, status) ELSE headerReports

\* The body of (*flusherDelegator).WriteHeader(code), on struct fields
\* wh (wroteHeader) as seen by the receiver.
WriteHeaderReports(wh, code) ==
  IF ~wh THEN Append(headerReports, code) ELSE headerReports

\* f.WriteHeader(code) called by the handler.
WriteHeader(code) ==
  /\ HandlerCall(TRUE)
  /\ headerReports' = WriteHeaderReports(wroteHeader, code)
  /\ status' = code
  /\ wroteHeader' = TRUE
  /\ sentStatus' = SendHeader(code)
  /\ UNCHANGED <<observedTTFB, written, ttfbReports>>

\* Mutation: Write without the WriteHeader(200) that precedes the bytes.
WriteWithoutDefaultHeader(len, n) ==
  /\ HandlerCall(FALSE)
  /\ n <= len
  /\ written' = written + n
  /\ sentStatus' = SendHeader(200)
  /\ ttfbReports' = IF observedTTFB THEN ttfbReports
                                    ELSE Append(ttfbReports, status)
  /\ observedTTFB' = TRUE
  /\ UNCHANGED <<status, wroteHeader, headerReports>>

\* f.Write(b): WriteHeader(200) first if no header was written, then the
\* wrapped Write (whose own implicit header is 200), then the first-byte
\* report.
Write(len, n) ==
  LET st == IF wroteHeader THEN status ELSE 200 IN
  /\ HandlerCall(FALSE)
  /\ n <= len
  /\ written' = written + n
  /\ headerReports' = WriteHeaderReports(wroteHeader, 200)
  /\ status' = st
  /\ wroteHeader' = TRUE
  /\ sentStatus' = SendHeader(200)
  /\ ttfbReports' = IF observedTTFB THEN ttfbReports
                                    ELSE Append(ttfbReports, st)
  /\ observedTTFB' = TRUE

\* f.Flush() on a copy of the struct: the WriteHeader(200) it makes
\* reports and reaches the wrapped writer, but its field updates are lost.
Flush ==
  /\ HandlerCall(FALSE)
  /\ headerReports' = WriteHeaderReports(wroteHeader, 200)
  /\ sentStatus' = SendHeader(200)
  /\ UNCHANGED <<status, wroteHeader, observedTTFB, written, ttfbReports>>

Next ==
  \/ \E code \in Codes : WriteHeader(code)
  \/ \E len \in 0..MaxLen, n \in 0..MaxLen : Write(len, n)
  \/ Flush

Spec == Init /\ [][Next]_vars

-----------------------------------------------------------------------------
TypeOK ==
  /\ status \in Codes \cup {0}
  /\ wroteHeader \in BOOLEAN
  /\ observedTTFB \in BOOLEAN
  /\ written \in 0..(MaxCalls * MaxLen)
  /\ sentStatus \in Codes \cup {0}
  /\ headerReports \in Seq(Codes)
  /\ ttfbReports \in Seq(Codes)
  /\ calls \in 0..MaxCalls

(***************************************************************************)
(* The metrics agree with the client: with a handler that writes the       *)
(* header at most once and first, every status reported at header time    *)
(* and at first byte is the status the client received.                   *)
(***************************************************************************)
ReportedStatusIsSent ==
  /\ \A i \in 1..Len(headerReports) : headerReports[i] = sentStatus
  /\ \A i \in 1..Len(ttfbReports) : ttfbReports[i] = sentStatus

(***************************************************************************)
(* The type comment: atWriteHeaderFunc is called only once per response.   *)
(***************************************************************************)
HeaderReportedOnce == Len(headerReports) <= 1

=============================================================================

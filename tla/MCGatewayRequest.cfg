\* The statuses the metrics report for every objectAPIHandlersWrapper method behind CollectEvent.
CONSTANTS
  Codes <- MCCodes
  MaxCalls <- MCMaxCalls
  MaxLen <- MCMaxLen
SPECIFICATION Spec
INVARIANTS
  ReportedStatusIsSent
\* A request ends once CollectEvent's handler has returned.
CHECK_DEADLOCK FALSE

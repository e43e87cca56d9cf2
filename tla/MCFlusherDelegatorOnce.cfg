\* The type comment's promise that atWriteHeaderFunc runs once per response.
CONSTANTS
  Codes <- MCCodes
  MaxCalls <- MCMaxCalls
  MaxLen <- MCMaxLen
  LegalCaller = TRUE
SPECIFICATION Spec
INVARIANTS
  HeaderReportedOnce
CHECK_DEADLOCK FALSE

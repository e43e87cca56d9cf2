\* A new object under the key between Stat and Range: the bytes served are not the stat'ed object's.
CONSTANTS
  Sizes <- MCSizes
  MaxUploads <- MCMaxUploads
SPECIFICATION Spec
INVARIANT
  ServedObjectIsStatted
\* The request ends once Range has returned.
CHECK_DEADLOCK FALSE

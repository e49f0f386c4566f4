SPECIFICATION Spec
INVARIANTS
  DeltaIsLastToken
CONSTANTS
  MaxSeqLen = 4
  MaxRequests = 3
  Zero <- ZeroRow
CHECK_DEADLOCK FALSE

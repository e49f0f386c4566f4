SPECIFICATION Spec
INVARIANTS
  TypeOK
  ViewIsContext
  LayersAgree
  EntryOK
CONSTANTS
  MaxSeqLen = 4
  MaxRequests = 3
  Zero <- ZeroRow
CHECK_DEADLOCK FALSE

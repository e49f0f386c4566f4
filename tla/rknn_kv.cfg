SPECIFICATION Spec
CONSTANTS
  Heads = 2
  Dim = 3
  Layers = 2
  Buckets <- MCBuckets
  Formats <- MCFormats
  LongPresents = FALSE
  MaxLen = 6
INVARIANTS TypeOK FedExact RowsExact LayersInStep

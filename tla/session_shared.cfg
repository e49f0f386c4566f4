SPECIFICATION Spec
INVARIANTS
  ExactLogits
  ShardsAgree
SYMMETRY Symmetry
CONSTANTS
  Master = {m1, m2}
  Addr = {"w1"}
  Local = Local
  NumBlocks = 3
  Owner <- OwnerShared
  Hosted <- HostedShared
  Encoding <- EncShared
  MaxSeqLen = 3
  SampleLen = 2
  PromptLens = {1, 2}
  MaxRequests = 1
CHECK_DEADLOCK FALSE

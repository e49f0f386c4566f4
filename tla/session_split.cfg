SPECIFICATION FairSpec
INVARIANTS
  TypeOK
  ExactLogits
  ReplyMatchesRequest
  QuietBetweenRequests
  ShardsAgree
  SessionInv
PROPERTIES
  RequestEnds
  ImplementsSingleMachine
CONSTANTS
  Master = {m1}
  Addr = {"w1", "w2"}
  Local = Local
  NumBlocks = 4
  Owner <- OwnerSplit
  Hosted <- HostedSplit
  Encoding <- EncSplit
  MaxSeqLen = 3
  SampleLen = 3
  PromptLens = {1, 2}
  MaxRequests = 2
CHECK_DEADLOCK FALSE

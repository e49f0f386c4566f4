SPECIFICATION Spec
PROPERTY
  NoSilentClose
CONSTANTS
  Master = {m1}
  Addr = {"w1", "w2"}
  Local = Local
  NumBlocks = 4
  Owner <- OwnerSplit
  Hosted <- HostedSplit
  Encoding <- EncSplit
  MaxSeqLen = 3
  SampleLen = 2
  PromptLens = {1, 2}
  MaxRequests = 2
CHECK_DEADLOCK FALSE

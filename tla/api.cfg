SPECIFICATION FairSpec
CONSTANTS
  c1 = c1
  c2 = c2
  Chat = {c1, c2}
  View = {v1}
  Worker = {w1}
  Nobody = Nobody
  Writer <- SmallWriter
  Asks <- SmallAsks
  ArgsPrompt <- SomePrompt
  SampleLen = 2
  HelloChunks = 1
  PrefillChunks = 2
  DecodeChunks = 1
  Past = 1
INVARIANTS OwnAnswer WithinRate
PROPERTIES Answered
CHECK_DEADLOCK FALSE

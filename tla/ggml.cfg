SPECIFICATION Spec
CONSTANTS
  NL = 3
  Linear = {1, 3}
  Splits <- SmallSplits
  MaxSeq = 5
  Bucket = 2
  Prompts = {1, 3, 6}
  MaxStreams = 3
INVARIANTS TypeOK ExactState RefusedOnlyWhenFull
CHECK_DEADLOCK FALSE

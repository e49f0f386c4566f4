SPECIFICATION FairSpec
CONSTANTS
  NL = 3
  MaxSeq = 5
  MaxBucket = 2
  MinHeadroom = 1
  Deployments <- Anything
  Faults = {"load", "validate", "npu", "layer"}
  MaxRequests = 3
  SampleLen = 4
INVARIANTS TypeOK ExactOutput SoundNpuIsKept NoSelfInflictedFailure ValidatedOnly
PROPERTIES FailedNpuStaysOff RequestEnds
CHECK_DEADLOCK FALSE

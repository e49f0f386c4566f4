SPECIFICATION Spec
CONSTANTS
  NL = 3
  MaxSeq = 4
  MaxBucket = 2
  MinHeadroom = 1
  Deployments <- RemoteInPrefix
  Faults = {}
  MaxRequests = 2
  SampleLen = 3
INVARIANTS LogitsOnly
CHECK_DEADLOCK FALSE

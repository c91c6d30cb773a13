CONSTANTS
  Topics = {"t1"}
  Identifiers = {"i1"}
  ClientId = "client"
  Default = "default"
  Unlabelled <- None
  Stream <- OneStream
  DedupLimit = 3
  DedupEvict = 1
  MayThrow = FALSE
  MaxSeq = 1
  MaxFaults = 1
  MaxCalls = 3
SPECIFICATION Spec
INVARIANTS ResumedOnReconnect

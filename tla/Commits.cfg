CONSTANTS
  Topics = {"t1", "t2"}
  Identifiers = {"i1"}
  ClientId = "client"
  Default = "default"
  Unlabelled <- FirstOfT1
  Stream <- OneStream
  DedupLimit = 1
  DedupEvict = 1
  MayThrow = TRUE
  MaxSeq = 1
  MaxFaults = 2
  MaxCalls = 3
SPECIFICATION Spec
INVARIANTS TypeOK CommitNamesHandled CommitNamesSubscription DedupBounded TablesAgree

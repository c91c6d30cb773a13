CONSTANTS
  Publishers = {p1, p2}
  Keepers = {k1, k2}
  NoThread = NoThread
  CloseAttempts = 1
  PublishAttempts = 2
  KeepaliveAttempts = 2
  MaxConnects = 2
  MaxDisconnects = 1
  MaxTerm = 1
  MaxFaults = 1
SPECIFICATION FairSpec
INVARIANTS TypeOK LossNotifiedOnce OffersUnderMutex
PROPERTIES KeepaliveThreadsEnd
CHECK_DEADLOCK FALSE

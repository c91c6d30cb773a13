CONSTANTS
  Plain = Plain
  Endpoints <- Sparse
  MemberIds = {0, 2, 3}
  CloseAttempts = 2
  MaxRetries = 2
  ConnectOffers = 1
  FirstTerm = 1
  MaxTerm = 2
  MaxSessions = 2
  MaxConnects = 1
  MaxDisconnects = 1
  MaxFaults = 1
SPECIFICATION FairSpec
INVARIANTS TypeOK TriesBounded BuffersMatchSession NoResurrection HealthyConnectSucceeds
PROPERTIES ConnectReturns
CHECK_DEADLOCK FALSE

CONSTANTS
  MaxReconnectAttempts = 1
  Committed = TRUE
  MaxCalls = 2
  MaxFaults = 1
SPECIFICATION FairSpec
INVARIANTS TypeOK ConnectedIsServed SuppressionEnds CallsReturn
PROPERTIES LossIsRepaired
CHECK_DEADLOCK FALSE

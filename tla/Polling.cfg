CONSTANTS
  GracePeriod = 3
  HealthInterval = 2
  DisconnectTimeout = 3
  LegacyIdleTimeout = 5
  Slack = 2
  MaxAge = 9
SPECIFICATION FairSpec
INVARIANTS TypeOK LossFoundInTime
PROPERTIES StopIsObeyed
CHECK_DEADLOCK FALSE

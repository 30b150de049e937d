SPECIFICATION ConnectionSpec
CONSTANTS
  w1 = w1
  Waiters <- NoWaiter
  Cancellable <- NoWaiter
  MaxRetries = 2
  MaxOrphans = 1
  Options <- ValidOptions
  ServerChannelMax = 10
INVARIANT SupervisorSurvives
CHECK_DEADLOCK FALSE

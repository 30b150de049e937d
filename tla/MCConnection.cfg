SPECIFICATION LiveSpec
CONSTANTS
  w1 = w1
  Waiters <- OneWaiter
  Cancellable <- OneWaiter
  MaxRetries = 2
  MaxOrphans = 1
  Options <- SomeOptions
  ServerChannelMax = 10
INVARIANTS StateReadable DialSound NothingLeftBehind
 
CHECK_DEADLOCK FALSE

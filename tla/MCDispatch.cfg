SPECIFICATION LiveSpec
CONSTANTS
  m1 = m1
  m2 = m2
  Msgs <- MCMsgs
  Concurrency = 2
  Queue = "q"
  RuneStarts <- MCRuneStarts
  maxMsgIDKeyLen = 2
  MaxInt = 3
  Size <- MCSize
  MaxInFlightBytes = 2
  MaxRedeliveries = 1
  Setups <- MCSetups
  MaxDeliveries = 3
  MaxEvents = 1
INVARIANTS DispatchSound FramesSound RedeliveryBounded
PROPERTY DispatchProgress
CHECK_DEADLOCK FALSE

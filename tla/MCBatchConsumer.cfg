SPECIFICATION LiveSpec
CONSTANTS
  m1 = m1
  m2 = m2
  Msgs <- MCMsgs
  defaultSize = 2
  defaultPrefetch = 1
  MaxUint16 = 3
  MaxRedeliveries = 1
  Setups <- MCSetups
  MaxDeliveries = 3
  MaxChannels = 2
  MaxEvents = 1
INVARIANTS BatchSound FramesSound RequeueBounded
PROPERTY BatchProgress
CHECK_DEADLOCK FALSE

SPECIFICATION Spec
CONSTANTS
  m1 = m1
  m2 = m2
  Msgs <- MCMsgs
  defaultSize = 2
  defaultPrefetch = 1
  MaxUint16 = 3
  MaxRedeliveries = 1
  Setups <- MCSetups
  MaxDeliveries = 2
  MaxChannels = 2
  MaxEvents = 1
INVARIANT ReconnectResumes
CHECK_DEADLOCK FALSE

SPECIFICATION Spec
CONSTANTS
  a = a
  b = b
  m1 = m1
  m2 = m2
  m3 = m3
  NoCaller = NoCaller
  Jobs <- OneSingle
  Batches = {}
  Impatient = {a}
  Retries = 1
  MaxTag = 2
INVARIANT NoSilentLoss
CHECK_DEADLOCK FALSE

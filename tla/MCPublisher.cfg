SPECIFICATION LiveSpec
CONSTANTS
  a = a
  b = b
  m1 = m1
  m2 = m2
  m3 = m3
  NoCaller = NoCaller
  Jobs <- BatchAndSingle
  Batches = {a}
  Impatient = {a}
  Retries = 1
  MaxTag = 4
INVARIANTS CorrelationSound VerdictSound
PROPERTY PublishEnds
CHECK_DEADLOCK FALSE

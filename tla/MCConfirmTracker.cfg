SPECIFICATION Spec
CONSTANTS
  Tags = {1, 2, 3}
  orderCompactMinPrefix = 1
  MaxIndex = 3
INVARIANTS TypeOK LiveWindow DeadPrefixBounded ClosedResolvesAll
PROPERTIES FirstOutcomeWins ImplementsContract
CHECK_DEADLOCK FALSE

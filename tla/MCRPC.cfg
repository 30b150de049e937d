SPECIFICATION LiveSpec
CONSTANTS
  c1 = c1
  c2 = c2
  w1 = w1
  Calls <- MCCalls
  Deadlines <- MCDeadlines
  Workers <- MCWorkers
  MaxEvents = 1
INVARIANTS NothingLeaks ReplyToOwnCall AckedMeansConfirmed
 
CHECK_DEADLOCK FALSE

SPECIFICATION LiveSpec
CONSTANTS
  Conns = {p1, c1}
  DeclareConn = p1
  Inputs <- MCInputs
  MaxEvents = 3
INVARIANTS RedeclareSound AtLeastOnceCoupled DeadLettersSound
 
CHECK_DEADLOCK FALSE

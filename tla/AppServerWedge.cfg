SPECIFICATION Spec
CONSTANTS
  Thread = {a, b}
  NoThread = NoThread
  MaxTurns = 2
  MaxAsks = 1
  MaxSaid = 1
INVARIANT NeverWedged
CHECK_DEADLOCK FALSE
